---- MODULE Spec2Model ----
(***************************************************************************)
(* Agent-memory core: the thread store (crates/agent/src/db.rs), the       *)
(* embedding job queue (crates/agent/src/embedding_queue.rs) and the       *)
(* per-agent aggregate (crates/agent_memory/src/agent_memory.rs).          *)
(*                                                                         *)
(* The database is one SQLite connection behind a mutex: every step that   *)
(* locks the connection is one atomic action.  Tasks that the code spawns  *)
(* on the background executor and detaches run later, in any order.        *)
(* The code never issues PRAGMA foreign_keys, so whether the REFERENCES     *)
(* ... ON DELETE CASCADE clauses of the schema are enforced is fixed by    *)
(* the SQLite library the program is built with (SQLITE_DEFAULT_FOREIGN_   *)
(* KEYS): `foreign_keys` of the database is either value, chosen by Init.  *)
(***************************************************************************)
EXTENDS Integers, Sequences, FiniteSets, Bags, TLC

----------------------------------------------------------------------------
(* Bounds of the model *)

MaxSaves == 2

MaxQueueCalls == 1

MaxSaveFaults == 1

MaxFaults == 1

MaxCrashes == 1

CrashSaves == 1

\* saves beside the queued job whose attempts fail
RetrySaves == 1

RetryBacklog == 2

RevertSaves == 3

GlobalSaves == 2

GlobalBacklog == 1

DeleteSaves == 2

MaxOpens == 3

MaxOpenFaults == 1

MigrateSaves == 1

MaxStoredRows == 3

StampedSaves == 2

MaxFolds == 3

LiveSaves == 1

LiveFaults == 1

FailingSaves == 1

FailingFaults == 3

MaxQueued == 12

MaxTreeFiles == 3

MaxPriorityLen == 2

MaxLegacyMessages == 4

MaxTextLen == 6

MaxResponseLen == 3

MaxInitializeRuns == 3

----------------------------------------------------------------------------
(* Program constants *)

BATCH_SIZE == 10

MAX_RETRIES == 3

TimestampLen == 19

NULL == "NULL"

----------------------------------------------------------------------------
(* Text: a string is a sequence of one-character strings *)

IsDigit(c) == c \in {"0", "1", "2", "3", "4", "5", "6", "7", "8", "9"}

IsSpace(c) == c \in {" ", "\n", "\t", "\r"}

\* \d{4}-\d{2}-\d{2}[\sT]\d{2}:\d{2}:\d{2} matched at position i of t
MatchesTimestampAt(t, i) ==
    /\ i + TimestampLen - 1 <= Len(t)
    /\ \A k \in {0, 1, 2, 3, 5, 6, 8, 9, 11, 12, 14, 15, 17, 18} : IsDigit(t[i + k])
    /\ t[i + 4] = "-" /\ t[i + 7] = "-"
    /\ (IsSpace(t[i + 10]) \/ t[i + 10] = "T")
    /\ t[i + 13] = ":" /\ t[i + 16] = ":"

\* Regex::replace_all(text, ""): leftmost non-overlapping matches are dropped
RECURSIVE StripTimestamps(_, _)
StripTimestamps(t, i) ==
    IF i > Len(t) THEN <<>>
    ELSE IF MatchesTimestampAt(t, i) THEN StripTimestamps(t, i + TimestampLen)
    ELSE <<t[i]>> \o StripTimestamps(t, i + 1)

\* Regex \s+ replaced by one space
RECURSIVE CollapseWhitespace(_, _)
CollapseWhitespace(t, i) ==
    IF i > Len(t) THEN <<>>
    ELSE IF IsSpace(t[i])
         THEN (IF i > 1 /\ IsSpace(t[i - 1]) THEN <<>> ELSE <<" ">>)
              \o CollapseWhitespace(t, i + 1)
         ELSE <<t[i]>> \o CollapseWhitespace(t, i + 1)

\* str::trim
RECURSIVE Trim(_)
Trim(t) ==
    IF t = <<>> THEN t
    ELSE IF IsSpace(t[1]) THEN Trim(Tail(t))
    ELSE IF IsSpace(t[Len(t)]) THEN Trim(SubSeq(t, 1, Len(t) - 1))
    ELSE t

normalize_text_for_embedding(text) ==
    Trim(CollapseWhitespace(StripTimestamps(text, 1), 1))

\* [String]::join(sep)
RECURSIVE Join(_, _)
Join(parts, sep) ==
    IF parts = <<>> THEN <<>>
    ELSE IF Len(parts) = 1 THEN parts[1]
    ELSE parts[1] \o sep \o Join(Tail(parts), sep)

----------------------------------------------------------------------------
(* Messages and the session-text extractor *)

TextPart(t) == [type |-> "Text", text |-> t]

ThinkingPart(t) == [type |-> "Thinking", text |-> t]

ToolUsePart == [type |-> "ToolUse", text |-> <<>>]

UserMessage(content) == [kind |-> "User", content |-> content]

AgentMessage(content) == [kind |-> "Agent", content |-> content]

ResumeMessage == [kind |-> "Resume", content |-> <<>>]

\* the texts of the parts of `content` whose type is in `types`, in order
RECURSIVE TextParts(_, _)
TextParts(content, types) ==
    IF content = <<>> THEN <<>>
    ELSE (IF content[1].type \in types THEN <<content[1].text>> ELSE <<>>)
         \o TextParts(Tail(content), types)

extract_message_text(message) ==
    CASE message.kind = "User" -> Join(TextParts(message.content, {"Text"}), <<" ">>)
      [] message.kind = "Agent" ->
            Join(TextParts(message.content, {"Text", "Thinking"}), <<" ">>)
      [] OTHER -> <<>>

RECURSIVE NonEmptyMessageTexts(_)
NonEmptyMessageTexts(messages) ==
    IF messages = <<>> THEN <<>>
    ELSE (IF extract_message_text(messages[1]) # <<>>
          THEN <<extract_message_text(messages[1])>> ELSE <<>>)
         \o NonEmptyMessageTexts(Tail(messages))

extract_session_text(messages) ==
    normalize_text_for_embedding(Join(NonEmptyMessageTexts(messages), <<"\n">>))

\* SHA-256 of the text, hex encoded: the digests (first 8 hex digits) of the
\* session texts the model's threads produce
Sha256Hex ==
    {<< <<>>, "e3b0c442" >>,
     << <<"H", "i">>, "3639efcd" >>,
     << <<"H", "i", " ", "Y", "o">>, "8f1cf1a7" >>,
     << <<"2", "4", "-", "0", "1", "-", "0", "2", " ", "1", "0", ":", "3", "0", ":", "0", "0">>, "d370e1e4" >>,
     << <<"2", "5", "-", "0", "3", "-", "0", "4", "T", "1", "1", ":", "4", "5", ":", "1", "0">>, "5678f009" >>}

content_hash(text) == (CHOOSE p \in Sha256Hex : p[1] = text)[2]

----------------------------------------------------------------------------
(* Inputs *)

SessionIds == {"s1"}

None == "None"

\* Option: None and Some(x)
Nothing == <<>>

Some(x) == <<x>>

ThreadNoText ==
    [messages |-> <<ResumeMessage>>, agent_id |-> None, agent_type |-> None]

ThreadHi ==
    [messages |-> <<UserMessage(<<TextPart(<<"H", "i">>)>>)>>,
     agent_id |-> None, agent_type |-> None]

ThreadHiYo ==
    [messages |-> <<UserMessage(<<TextPart(<<"H", "i">>)>>),
                    AgentMessage(<<TextPart(<<"Y", "o">>), ToolUsePart>>)>>,
     agent_id |-> None, agent_type |-> None]

\* a thread of one user message with one text part
TextThread(text) ==
    [messages |-> <<UserMessage(<<TextPart(text)>>)>>,
     agent_id |-> None, agent_type |-> None]

\* "2024-01-02 10:30:00"
StampOne ==
    <<"2", "0", "2", "4", "-", "0", "1", "-", "0", "2", " ", "1", "0", ":", "3", "0", ":", "0", "0">>

\* "2025-03-04T11:45:10"
StampTwo ==
    <<"2", "0", "2", "5", "-", "0", "3", "-", "0", "4", "T", "1", "1", ":", "4", "5", ":", "1", "0">>

\* "1999-12-31 23:59:", a timestamp cut off before its seconds
CutStamp ==
    <<"1", "9", "9", "9", "-", "1", "2", "-", "3", "1", " ", "2", "3", ":", "5", "9", ":">>

\* texts that differ by one timestamp
StampedThreads ==
    {TextThread(<<"H", "i", " ">> \o StampOne), TextThread(<<"H", "i", " ">> \o StampTwo),
     TextThread(CutStamp \o StampOne), TextThread(CutStamp \o StampTwo)}

HashInputs == {content_hash(<<"H", "i">>)}

\* What a run may do: the threads it saves, the number of save_thread and
\* queue_job calls, of saves in which a statement fails, of failures of the
\* generator or the store, and of crashes, and the number of unfinished
\* detached tasks with which the worker still takes its next job
Scenario(threads, saves, queued, save_faults, faults, crashes, backlog) ==
    [threads |-> threads, saves |-> saves, queued |-> queued,
     save_faults |-> save_faults, faults |-> faults,
     crashes |-> crashes, backlog |-> backlog]

----------------------------------------------------------------------------
(* Tables: a table is a function from the keys of its rows to the rows;    *)
(* embedding_jobs is the sequence of its rows in insertion order           *)

Upsert(table, key, row) ==
    [k \in DOMAIN table \cup {key} |-> IF k = key THEN row ELSE table[k]]

EmptyTable == [k \in {} |-> NULL]

EmptyDb ==
    [foreign_keys |-> FALSE,
     threads |-> EmptyTable,
     schema_versions |-> EmptyTable,
     chat_sessions |-> EmptyTable,
     session_embeddings |-> EmptyTable,
     agent_global_embeddings |-> EmptyTable,
     embedding_jobs |-> <<>>]

\* the table without the row of the key
Remove(table, key) == [k \in DOMAIN table \ {key} |-> table[k]]

\* session_id ... REFERENCES chat_sessions(session_id): the insert of a row
\* for the session is accepted
ForeignKeyOk(d, session_id) ==
    ~d.foreign_keys \/ session_id \in DOMAIN d.chat_sessions

\* The row of threads is deleted (DELETE, or the conflicting row of an
\* INSERT OR REPLACE).  With foreign keys enforced ON DELETE CASCADE removes
\* the chat_sessions row and with it the session's session_embeddings and
\* embedding_jobs rows.
DeleteThreadRow(d, id) ==
    IF d.foreign_keys /\ id \in DOMAIN d.threads
    THEN [d EXCEPT !.threads = Remove(@, id),
                   !.chat_sessions = Remove(@, id),
                   !.session_embeddings =
                       IF id \in DOMAIN d.chat_sessions THEN Remove(@, id) ELSE @,
                   !.embedding_jobs =
                       IF id \in DOMAIN d.chat_sessions
                       THEN SelectSeq(@, LAMBDA r : r.session_id # id) ELSE @]
    ELSE [d EXCEPT !.threads = Remove(@, id)]

JobId(session_id, hash) == session_id \o "-" \o hash

JobRow(session_id, hash, now) ==
    [job_id |-> JobId(session_id, hash), session_id |-> session_id,
     content_hash |-> hash, status |-> "pending", retry_count |-> 0,
     error_message |-> NULL, created_at |-> now]

HasJob(jobs, job_id) == \E i \in 1..Len(jobs) : jobs[i].job_id = job_id

\* (INSERT OR REPLACE in the place of INSERT OR IGNORE)
InsertOrReplaceJob(jobs, row) ==
    IF HasJob(jobs, row.job_id)
    THEN SelectSeq(jobs, LAMBDA r : r.job_id # row.job_id) \o <<row>>
    ELSE Append(jobs, row)

\* INSERT OR IGNORE INTO embedding_jobs
InsertOrIgnoreJob(jobs, row) ==
    IF HasJob(jobs, row.job_id) THEN jobs ELSE Append(jobs, row)

\* INSERT INTO embedding_jobs: a primary-key conflict is an error and the
\* detached task drops it
InsertJob(jobs, row) ==
    IF HasJob(jobs, row.job_id) THEN jobs ELSE Append(jobs, row)

\* UPDATE embedding_jobs SET <fields> WHERE job_id = ?
UpdateJob(jobs, job_id, fields) ==
    [i \in 1..Len(jobs) |->
        IF jobs[i].job_id = job_id
        THEN [f \in DOMAIN jobs[i] |->
                 IF f \in DOMAIN fields THEN fields[f] ELSE jobs[i][f]]
        ELSE jobs[i]]

\* the rows in created_at order, rows of equal created_at in insertion order
RECURSIVE OrderByCreatedAt(_)
OrderByCreatedAt(rows) ==
    IF rows = <<>> THEN <<>>
    ELSE LET first == CHOOSE i \in 1..Len(rows) :
                        /\ \A j \in 1..Len(rows) : rows[i].created_at <= rows[j].created_at
                        /\ \A j \in 1..(i - 1) : rows[j].created_at > rows[i].created_at
         IN <<rows[first]>>
            \o OrderByCreatedAt(SubSeq(rows, 1, first - 1)
                                \o SubSeq(rows, first + 1, Len(rows)))

\* SELECT ... WHERE status = 'pending' ORDER BY created_at ASC LIMIT ?
fetch_pending_jobs(jobs, limit) ==
    LET pending == OrderByCreatedAt(SelectSeq(jobs, LAMBDA r : r.status = "pending"))
    IN SubSeq(pending, 1, IF Len(pending) < limit THEN Len(pending) ELSE limit)

\* (no reset)
ResetNothing(jobs) == jobs

\* UPDATE embedding_jobs SET status = 'pending' WHERE status = 'processing'
resume_pending_jobs(jobs) ==
    [i \in 1..Len(jobs) |->
        IF jobs[i].status = "processing"
        THEN [jobs[i] EXCEPT !.status = "pending"] ELSE jobs[i]]

----------------------------------------------------------------------------
(* save_thread_sync *)

AgentIdStr(thread) == IF thread.agent_id = None THEN "native" ELSE thread.agent_id

AgentTypeStr(thread) ==
    IF thread.agent_type = "Custom" THEN "custom" ELSE "builtin"

\* a new chat_sessions row: created_at and pending_embedding get their defaults
SessionRow(agent_id, agent_type, message_count, now) ==
    [agent_id |-> agent_id, agent_type |-> agent_type, created_at |-> now,
     message_count |-> message_count, pending_embedding |-> 1]

\* INSERT INTO chat_sessions ... ON CONFLICT(session_id) DO UPDATE
UpsertSession(sessions, id, thread, now) ==
    IF id \in DOMAIN sessions
    THEN Upsert(sessions, id,
                [sessions[id] EXCEPT !.agent_id = AgentIdStr(thread),
                                     !.agent_type = AgentTypeStr(thread),
                                     !.message_count = Len(thread.messages)])
    ELSE Upsert(sessions, id,
                SessionRow(AgentIdStr(thread), AgentTypeStr(thread),
                           Len(thread.messages), now))

\* SELECT content_hash FROM session_embeddings WHERE session_id = ?
StoredHash(d, id) ==
    IF id \in DOMAIN d.session_embeddings
    THEN d.session_embeddings[id].content_hash ELSE None

\* (the hash comparison left out)
AlwaysNeedsEmbedding(pending, stored_hash, hash) == TRUE

\* match (pending, stored_hash)
NeedsEmbedding(pending, stored_hash, hash) ==
    IF pending = 0 /\ stored_hash # None THEN stored_hash # hash ELSE TRUE

\* The statements of the savepoint in order; fail_at names the statement that
\* fails (0: none).  The result is the database when the closure returns, the
\* number of the statement that failed and what the INSERT OR IGNORE did.
SaveThreadBody(d, id, thread, fail_at, now) ==
    LET d0 == DeleteThreadRow(d, id)
        d1 == [d0 EXCEPT !.threads = Upsert(d0.threads, id, thread)]
        d2 == [d1 EXCEPT !.chat_sessions = UpsertSession(d1.chat_sessions, id, thread, now)]
        text == extract_session_text(thread.messages)
        hash == content_hash(text)
        pending == d2.chat_sessions[id].pending_embedding
        d4 == [d2 EXCEPT !.chat_sessions[id].pending_embedding = 1]
        d5 == [d4 EXCEPT !.embedding_jobs =
                  InsertOrIgnoreJob(d4.embedding_jobs, JobRow(id, hash, now))]
        Result(dbase, failed_at, enqueue) ==
            [db |-> dbase, failed_at |-> failed_at, enqueue |-> enqueue]
    IN  IF fail_at = 1 THEN Result(d, 1, "none")
        ELSE IF fail_at = 2 THEN Result(d1, 2, "none")
        ELSE IF ~(Len(thread.messages) > 0 /\ text # <<>>) THEN Result(d2, 0, "none")
        ELSE IF fail_at = 3 THEN Result(d2, 3, "none")
        ELSE IF ~NeedsEmbedding(pending, StoredHash(d2, id), hash)
             THEN Result(d2, 0, "none")
        ELSE IF fail_at = 4 THEN Result(d2, 4, "none")
        ELSE IF fail_at = 5 THEN Result(d4, 5, "none")
        ELSE Result(d5, 0, IF HasJob(d4.embedding_jobs, JobId(id, hash))
                           THEN "ignored" ELSE "inserted")

\* (no rollback)
WithoutRollback(before, result) == result.db

\* Connection::with_savepoint: RELEASE when the closure returns Ok,
\* ROLLBACK TO the savepoint when it returns Err
WithSavepoint(before, result) ==
    IF result.failed_at # 0 THEN before ELSE result.db

----------------------------------------------------------------------------
(* ThreadsDatabase::new: the migration *)

\* INSERT OR IGNORE INTO chat_sessions
InsertOrIgnoreSession(sessions, id, row) ==
    IF id \in DOMAIN sessions THEN sessions ELSE Upsert(sessions, id, row)

\* SELECT id FROM threads: the ids as a sequence
RECURSIVE ThreadIds(_)
ThreadIds(threads) ==
    IF DOMAIN threads = {} THEN <<>>
    ELSE LET id == CHOOSE k \in DOMAIN threads : TRUE
         IN <<id>> \o ThreadIds(Remove(threads, id))

\* (no row inserted)
BackfillNone(sessions, ids, now) == sessions

\* for thread_id in &thread_ids: the default row of a session is inserted
RECURSIVE BackfillSessions(_, _, _)
BackfillSessions(sessions, ids, now) ==
    IF ids = <<>> THEN sessions
    ELSE BackfillSessions(
            InsertOrIgnoreSession(sessions, ids[1], SessionRow("native", "builtin", 0, now)),
            Tail(ids), now)

\* INSERT OR REPLACE INTO schema_versions (domain, version)
RecordVersion(d) ==
    [d EXCEPT !.schema_versions = Upsert(@, "chat_sessions", [version |-> 1])]

\* The statements of the savepoint migrate_threads: one insert per thread id,
\* then the version; fail_at names the statement that fails (0: none)
MigrateBody(d, ids, fail_at, now) ==
    LET inserts == IF fail_at = 0 THEN Len(ids) ELSE fail_at - 1
        d1 == [d EXCEPT !.chat_sessions =
                  BackfillSessions(@, SubSeq(ids, 1, inserts), now)]
    IN  IF fail_at = 0
        THEN [db |-> RecordVersion(d1), failed_at |-> 0]
        ELSE [db |-> d1, failed_at |-> fail_at]

\* the number of statements of migrate_existing_threads that write
MigrateStatements(d) ==
    IF "chat_sessions" \in DOMAIN d.schema_versions THEN 0
    ELSE IF DOMAIN d.threads = {} THEN 1
    ELSE Cardinality(DOMAIN d.threads) + 1

\* migrate_existing_threads: the database when it returns and whether it
\* returned Ok
migrate_existing_threads(d, fail_at, now) ==
    IF "chat_sessions" \in DOMAIN d.schema_versions THEN [db |-> d, ok |-> TRUE]
    ELSE IF DOMAIN d.threads = {}
         THEN (IF fail_at = 0 THEN [db |-> RecordVersion(d), ok |-> TRUE]
               ELSE [db |-> d, ok |-> FALSE])
    ELSE LET result == MigrateBody(d, ThreadIds(d.threads), fail_at, now)
         IN [db |-> WithSavepoint(d, result), ok |-> result.failed_at = 0]

----------------------------------------------------------------------------
(* State *)

VARIABLES
    db,        \* the tables of threads.db
    worker,    \* worker_loop: its position, the batch it fetched (the job in
               \* hand is the head) and whether it has fetched since it started
    tasks,     \* the bag of spawned and detached tasks that have not finished
    saveCall,  \* the latest save_thread call: its session id, the statement
               \* that failed (0: the call returned Ok) and whether its INSERT
               \* OR IGNORE inserted a job row, was ignored, or did not run
    used,      \* calls, injected faults and crashes so far
    hist       \* history: the jobs whose store_session_embedding succeeded,
               \* the attempts per job since the last crash, the jobs that
               \* startup reset from processing

VARIABLE limit    \* the scenario of the run, fixed by Init

VARIABLES
    registry,  \* WebSearchRegistry: providers, active_provider, provider_priority
    toolCall,  \* the latest WebSearchTool::run: its candidates, the searches it
               \* invoked, the position of its loop, its title updates, its output
    agents,    \* AgentRegistry: the agents directory, manifest.json, the manifest
               \* in memory and the assets of the running build
    probe,     \* a call of a function of the program: its input and its result
    store      \* the ThreadsDatabase of the process: whether ThreadsDatabase::new
               \* has returned it, the calls of new so far and the latest result

queueVars == <<db, worker, tasks, saveCall, used, hist, limit>>

others == <<registry, toolCall, agents, probe, store>>

vars ==
    <<db, worker, tasks, saveCall, used, hist, limit, registry, toolCall, agents, probe,
      store>>

\* chrono::Utc::now() of the next call
Now == used.saves + used.queued + 1

BaseTask ==
    [kind |-> None, job_id |-> None, session_id |-> None, content_hash |-> None,
     status |-> None, retry_count |-> 0, error_message |-> NULL, created_at |-> 0,
     step |-> 0, agent_id |-> None, agent_type |-> None, current_count |-> 0,
     has_global |-> FALSE]

StatusTask(job_id, status, error_message) ==
    [BaseTask EXCEPT !.kind = "update_job_status", !.job_id = job_id,
                     !.status = status, !.error_message = error_message]

RetryTask(job_id, retry_count, error_message) ==
    [BaseTask EXCEPT !.kind = "update_job_retry", !.job_id = job_id,
                     !.retry_count = retry_count, !.error_message = error_message]

MarkTask(session_id) ==
    [BaseTask EXCEPT !.kind = "mark_embedding_complete", !.session_id = session_id]

GlobalTask(session_id) ==
    [BaseTask EXCEPT !.kind = "update_global_embedding", !.session_id = session_id,
                     !.step = 1]

QueueTask(session_id, hash, now) ==
    [BaseTask EXCEPT !.kind = "queue_job", !.session_id = session_id,
                     !.content_hash = hash, !.created_at = now]

Spawn(bag, new) == bag (+) new

Finish(bag, t) == bag (-) SetToBag({t})

Running(kind) == {t \in BagToSet(tasks) : t.kind = kind}

NoProvider == [id |-> None, inst |-> 0]

\* WebSearchRegistry::default()
EmptyRegistry ==
    [providers |-> EmptyTable, active_provider |-> NoProvider,
     provider_priority |-> <<>>]

NoResult == [ok |-> FALSE, response |-> <<>>, err |-> <<>>]

\* no WebSearchTool::run yet; `responses` and `errors` are what the searches
\* of the providers can return
NoCall(responses, errors) ==
    [pc |-> "idle", responses |-> responses, errors |-> errors,
     preferred |-> None, max_results |-> 0, snippet_length |-> 0,
     ordered |-> <<>>, candidates |-> <<>>, invoked |-> <<>>, results |-> <<>>,
     tried |-> <<>>, last_err |-> <<>>, updates |-> <<>>, output |-> NoResult]

AgentIds == {"julia", "orb"}

\* the directory does not exist
NoTree == {[path |-> <<>>, data |-> <<>>]}

\* index.json does not exist
NoManifest == [agents |-> EmptyTable, exists |-> FALSE]

\* Result<Option<_>>; Ok(()) is written Ok(None)
ResultOk(value) == [ok |-> TRUE, value |-> value]

ResultErr == [ok |-> FALSE, value |-> Nothing]

\* a call of the registry and what it returned
RegistryCall(op, agent_id, result) == [op |-> op, agent_id |-> agent_id, result |-> result]

\* no run of initialize yet: an empty data directory.  `disk` holds the
\* directories builtin/{agent_id}, `custom` the directories custom/{agent_id},
\* `dirs` tells which of agents, agents/builtin, agents/custom exist
NoAgents ==
    [assets |-> EmptyTable, disk |-> [agent_id \in AgentIds |-> NoTree],
     manifest_file |-> NoManifest, skipped |-> {}, runs |-> 0,
     stateless |-> FALSE, dirs |-> {}, custom |-> [agent_id \in AgentIds |-> NoTree],
     call |-> RegistryCall(None, None, ResultOk(Nothing))]

NoProbe == [op |-> None, input |-> None, output |-> None]

\* no call yet
QueueIdle(scenario) ==
    /\ limit = scenario
    /\ worker = [pc |-> "down", batch |-> <<>>, fetched |-> FALSE]
    /\ tasks = EmptyBag
    /\ saveCall = [session_id |-> None, failed_at |-> 0, enqueue |-> "none"]
    /\ used = [saves |-> 0, queued |-> 0, save_faults |-> 0, faults |-> 0,
               crashes |-> 0]
    /\ hist = [stored |-> {}, attempts |-> EmptyTable,
               recovered |-> {}]

\* ThreadsDatabase::new has returned the database of a new data directory
QueueInit(scenario) ==
    /\ QueueIdle(scenario)
    /\ \E foreign_keys \in BOOLEAN :
          db = migrate_existing_threads(
                  [EmptyDb EXCEPT !.foreign_keys = foreign_keys], 0, 0).db
    /\ store = [open |-> TRUE, opens |-> 1, faults |-> 0, result |-> "Ok"]

InitOf(scenario) ==
    /\ registry = EmptyRegistry
    /\ toolCall = NoCall({}, {})
    /\ agents = NoAgents
    /\ probe = NoProbe
    /\ QueueInit(scenario)

----------------------------------------------------------------------------
(* Thread store *)

\* ThreadsDatabase::save_thread: save_thread_sync under the connection lock
SaveThread(id, thread, fail_at) ==
    LET result == SaveThreadBody(db, id, thread, fail_at, Now)
    IN  /\ used.saves < limit.saves
        /\ result.failed_at # 0 => used.save_faults < limit.save_faults
        /\ fail_at # 0 => result.failed_at = fail_at
        /\ db' = WithSavepoint(db, result)
        /\ saveCall' = [session_id |-> id, failed_at |-> result.failed_at,
                        enqueue |-> result.enqueue]
        /\ used' = [used EXCEPT
                       !.saves = @ + 1,
                       !.save_faults = @ + (IF result.failed_at # 0 THEN 1 ELSE 0)]
        /\ UNCHANGED <<worker, tasks, hist, limit, others>>

\* ThreadsDatabase::new: the tables are created if they do not exist, then
\* migrate_existing_threads runs; an error of it is the error of new
OpenDatabase(fail_at) ==
    LET result == migrate_existing_threads(db, fail_at, Now)
    IN  /\ ~store.open
        /\ store.opens < MaxOpens
        /\ fail_at <= MigrateStatements(db)
        /\ fail_at # 0 => store.faults < MaxOpenFaults
        /\ db' = result.db
        /\ store' = [open |-> result.ok, opens |-> store.opens + 1,
                     faults |-> store.faults + (IF fail_at # 0 THEN 1 ELSE 0),
                     result |-> IF result.ok THEN "Ok" ELSE "Err"]
        /\ UNCHANGED <<worker, tasks, saveCall, used, hist, limit,
                       registry, toolCall, agents, probe>>

\* the process ends: the database file stays
Exit ==
    /\ store.open
    /\ store' = [store EXCEPT !.open = FALSE]
    /\ worker' = [pc |-> "down", batch |-> <<>>, fetched |-> FALSE]
    /\ tasks' = EmptyBag
    /\ UNCHANGED <<db, saveCall, used, hist, limit, registry, toolCall, agents, probe>>

\* ThreadsDatabase::delete_thread, for a thread that is stored (for any other
\* id the DELETE finds no row)
DeleteThread(id) ==
    /\ id \in DOMAIN db.threads
    /\ db' = DeleteThreadRow(db, id)
    /\ UNCHANGED <<worker, tasks, saveCall, used, hist, limit, others>>

----------------------------------------------------------------------------
(* Embedding queue: calls *)

\* EmbeddingQueue::queue_job: the insert is a detached task
QueueJob(session_id, hash) ==
    /\ used.queued < limit.queued
    /\ tasks' = Spawn(tasks, SetToBag({QueueTask(session_id, hash, Now)}))
    /\ used' = [used EXCEPT !.queued = @ + 1]
    /\ UNCHANGED <<db, worker, saveCall, hist, limit, others>>

\* start_worker: the worker loop is spawned
StartWorker ==
    /\ worker.pc = "down"
    /\ worker' = [pc |-> "fetch", batch |-> <<>>, fetched |-> FALSE]
    /\ UNCHANGED <<db, tasks, saveCall, used, hist, limit, others>>

\* Startup of the queue after the process ended: resume_pending_jobs has
\* run when start_worker is called
StartQueue ==
    /\ worker.pc = "down"
    /\ db' = [db EXCEPT !.embedding_jobs = resume_pending_jobs(@)]
    /\ worker' = [pc |-> "fetch", batch |-> <<>>, fetched |-> FALSE]
    /\ hist' = [hist EXCEPT !.recovered =
                   {db.embedding_jobs[i].job_id : i \in
                       {j \in 1..Len(db.embedding_jobs) :
                           db.embedding_jobs[j].status = "processing"}}]
    /\ UNCHANGED <<tasks, saveCall, used, limit, others>>

\* The process exits: the worker and the unfinished tasks are gone, the
\* database file stays
Crash ==
    /\ worker.pc # "down"
    /\ used.crashes < limit.crashes
    /\ worker' = [pc |-> "down", batch |-> <<>>, fetched |-> FALSE]
    /\ tasks' = EmptyBag
    /\ used' = [used EXCEPT !.crashes = @ + 1]
    /\ hist' = [hist EXCEPT !.attempts = EmptyTable]
    /\ UNCHANGED <<db, saveCall, limit, others>>

----------------------------------------------------------------------------
(* Embedding queue: worker_loop *)

\* (the Ok arm taken whatever the result)
CompleteAlways(job, result) ==
    SetToBag({StatusTask(job.job_id, "completed", NULL),
              MarkTask(job.session_id), GlobalTask(job.session_id)})

\* the loop body after process_job returned `result` ("Ok" or the error text):
\* the tasks it spawns
JobResultTasks(job, result) ==
    IF result = "Ok"
    THEN SetToBag({StatusTask(job.job_id, "completed", NULL),
                   MarkTask(job.session_id), GlobalTask(job.session_id)})
    ELSE IF job.retry_count + 1 < MAX_RETRIES
         THEN SetToBag({RetryTask(job.job_id, job.retry_count + 1, result)})
         ELSE SetToBag({StatusTask(job.job_id, "failed", result)})

\* the worker goes on after the job in hand: to the next job of the batch (after
\* RETRY_DELAY when the job is retried), or to the next fetch
JobDone(result) ==
    /\ tasks' = Spawn(tasks, JobResultTasks(Head(worker.batch), result))
    /\ worker' = [worker EXCEPT !.batch = Tail(@),
                                !.pc = IF Tail(worker.batch) = <<>> THEN "fetch" ELSE "next"]

WorkerFetch ==
    /\ worker.pc = "fetch"
    /\ LET jobs == fetch_pending_jobs(db.embedding_jobs, BATCH_SIZE)
       IN worker' = [pc |-> IF jobs = <<>> THEN "fetch" ELSE "next",
                     batch |-> jobs, fetched |-> TRUE]
    /\ UNCHANGED <<db, tasks, saveCall, used, hist, limit, others>>

\* fetch_pending_jobs fails: Err(_) => Vec::new(), the loop sleeps and fetches again
WorkerFetchError ==
    /\ worker.pc = "fetch"
    /\ used.faults < limit.faults
    /\ used' = [used EXCEPT !.faults = @ + 1]
    /\ worker' = [pc |-> "fetch", batch |-> <<>>, fetched |-> TRUE]
    /\ UNCHANGED <<db, tasks, saveCall, hist, limit, others>>

\* for job in jobs: update_job_status(Processing) is spawned, process_job starts
WorkerNextJob ==
    /\ worker.pc = "next"
    /\ BagCardinality(tasks) <= limit.backlog
    /\ LET job == Head(worker.batch)
       IN /\ tasks' = Spawn(tasks, SetToBag({StatusTask(job.job_id, "processing", NULL)}))
          /\ hist' = [hist EXCEPT !.attempts =
                        Upsert(@, job.job_id,
                               IF job.job_id \in DOMAIN @
                               THEN (IF @[job.job_id] > MAX_RETRIES
                                     THEN @[job.job_id] ELSE @[job.job_id] + 1)
                               ELSE 1)]
    /\ worker' = [worker EXCEPT !.pc = "load"]
    /\ UNCHANGED <<db, saveCall, used, limit, others>>

\* (the hash of the loaded text is not compared with the job's)
LoadAnyHash(d, job) ==
    IF job.session_id \notin DOMAIN d.threads THEN "Thread not found"
    ELSE IF extract_session_text(d.threads[job.session_id].messages) = <<>>
         THEN "No text content in session"
         ELSE "Ok"

\* process_job up to the call of the generator: the thread is loaded, its
\* session text extracted and its hash compared with the job's
LoadResult(d, job) ==
    IF job.session_id \notin DOMAIN d.threads THEN "Thread not found"
    ELSE LET text == extract_session_text(d.threads[job.session_id].messages)
         IN IF text = <<>> THEN "No text content in session"
            ELSE IF content_hash(text) # job.content_hash THEN "Content hash mismatch"
            ELSE "Ok"

WorkerLoad ==
    /\ worker.pc = "load"
    /\ LET result == LoadResult(db, Head(worker.batch))
       IN IF result = "Ok"
          THEN /\ worker' = [worker EXCEPT !.pc = "generate"]
               /\ UNCHANGED tasks
          ELSE JobDone(result)
    /\ UNCHANGED <<db, saveCall, used, hist, limit, others>>

\* generator.generate(...).await
WorkerGenerate(ok) ==
    /\ worker.pc = "generate"
    /\ IF ok
       THEN /\ worker' = [worker EXCEPT !.pc = "store"]
            /\ UNCHANGED <<tasks, used>>
       ELSE /\ used.faults < limit.faults
            /\ used' = [used EXCEPT !.faults = @ + 1]
            /\ JobDone("Failed to generate embedding")
    /\ UNCHANGED <<db, saveCall, hist, limit, others>>

\* INSERT OR REPLACE INTO session_embeddings
store_session_embedding(embeddings, session_id, hash) ==
    Upsert(embeddings, session_id, [content_hash |-> hash])

\* vector_store.store_session_embedding(...).await and the rest of the loop body
WorkerStore(ok) ==
    /\ worker.pc = "store"
    /\ LET job == Head(worker.batch)
       IN IF ok /\ ForeignKeyOk(db, job.session_id)
          THEN /\ db' = [db EXCEPT !.session_embeddings =
                            store_session_embedding(@, job.session_id, job.content_hash)]
               /\ hist' = [hist EXCEPT !.stored = @ \cup {job.job_id}]
               /\ JobDone("Ok")
               /\ UNCHANGED used
          ELSE /\ ForeignKeyOk(db, job.session_id) => used.faults < limit.faults
               /\ used' = [used EXCEPT !.faults =
                              @ + (IF ForeignKeyOk(db, job.session_id) THEN 1 ELSE 0)]
               /\ JobDone("Failed to store embedding")
               /\ UNCHANGED <<db, hist>>
    /\ UNCHANGED <<saveCall, limit, others>>

----------------------------------------------------------------------------
(* Embedding queue: the detached tasks *)

\* the task spawned by queue_job
RunQueueJob(t) ==
    /\ t \in Running("queue_job")
    /\ db' = IF ForeignKeyOk(db, t.session_id)
             THEN [db EXCEPT !.embedding_jobs =
                      InsertJob(@, [JobRow(t.session_id, t.content_hash, t.created_at)
                                       EXCEPT !.job_id = JobId(t.session_id, t.content_hash)])]
             ELSE db
    /\ tasks' = Finish(tasks, t)
    /\ UNCHANGED <<worker, saveCall, used, hist, limit, others>>

\* the task spawned by update_job_status
RunUpdateJobStatus(t) ==
    /\ t \in Running("update_job_status")
    /\ db' = [db EXCEPT !.embedding_jobs =
                 UpdateJob(@, t.job_id,
                           [status |-> t.status, error_message |-> t.error_message])]
    /\ tasks' = Finish(tasks, t)
    /\ UNCHANGED <<worker, saveCall, used, hist, limit, others>>

\* the task spawned by update_job_retry
RunUpdateJobRetry(t) ==
    /\ t \in Running("update_job_retry")
    /\ db' = [db EXCEPT !.embedding_jobs =
                 UpdateJob(@, t.job_id,
                           [status |-> "pending", retry_count |-> t.retry_count,
                            error_message |-> t.error_message])]
    /\ tasks' = Finish(tasks, t)
    /\ UNCHANGED <<worker, saveCall, used, hist, limit, others>>

\* the task spawned by mark_embedding_complete
RunMarkEmbeddingComplete(t) ==
    /\ t \in Running("mark_embedding_complete")
    /\ db' = IF t.session_id \in DOMAIN db.chat_sessions
             THEN [db EXCEPT !.chat_sessions[t.session_id].pending_embedding = 0]
             ELSE db
    /\ tasks' = Finish(tasks, t)
    /\ UNCHANGED <<worker, saveCall, used, hist, limit, others>>

\* The task spawned by update_global_embedding locks the connection five
\* times; `step` is the lock it takes next.
GlobalStep(t, next) == Spawn(Finish(tasks, t), SetToBag({next}))

\* SELECT agent_id, agent_type FROM chat_sessions
GlobalSelectAgent(t) ==
    /\ t \in Running("update_global_embedding") /\ t.step = 1
    /\ tasks' = IF t.session_id \in DOMAIN db.chat_sessions
                THEN GlobalStep(t, [t EXCEPT
                        !.agent_id = db.chat_sessions[t.session_id].agent_id,
                        !.agent_type = db.chat_sessions[t.session_id].agent_type,
                        !.step = 2])
                ELSE Finish(tasks, t)
    /\ UNCHANGED <<db, worker, saveCall, used, hist, limit, others>>

\* vector_store.get_session_embedding
GlobalLoadEmbedding(t) ==
    /\ t \in Running("update_global_embedding") /\ t.step = 2
    /\ tasks' = IF t.session_id \in DOMAIN db.session_embeddings
                THEN GlobalStep(t, [t EXCEPT !.step = 3])
                ELSE Finish(tasks, t)
    /\ UNCHANGED <<db, worker, saveCall, used, hist, limit, others>>

\* SELECT session_count FROM agent_global_embeddings
GlobalSelectCount(t) ==
    /\ t \in Running("update_global_embedding") /\ t.step = 3
    /\ tasks' = GlobalStep(t, [t EXCEPT
                    !.current_count =
                        IF t.agent_id \in DOMAIN db.agent_global_embeddings
                        THEN db.agent_global_embeddings[t.agent_id].session_count
                        ELSE 0,
                    !.step = 4])
    /\ UNCHANGED <<db, worker, saveCall, used, hist, limit, others>>

\* add_session_embedding_with_count: vector_store.get_agent_embedding
GlobalGetAgentEmbedding(t) ==
    /\ t \in Running("update_global_embedding") /\ t.step = 4
    /\ tasks' = GlobalStep(t, [t EXCEPT
                    !.has_global = t.agent_id \in DOMAIN db.agent_global_embeddings,
                    !.step = 5])
    /\ UNCHANGED <<db, worker, saveCall, used, hist, limit, others>>

\* add_session_embedding_with_count: the count stored with the new mean
NewCount(has_global, current_count) ==
    IF has_global THEN current_count + 1 ELSE 1

\* add_session_embedding_with_count: vector_store.store_agent_embedding
GlobalStore(t) ==
    /\ t \in Running("update_global_embedding") /\ t.step = 5
    /\ db' = [db EXCEPT !.agent_global_embeddings =
                 Upsert(@, t.agent_id,
                        [agent_type |-> t.agent_type,
                         session_count |-> NewCount(t.has_global, t.current_count)])]
    /\ tasks' = Finish(tasks, t)
    /\ UNCHANGED <<worker, saveCall, used, hist, limit, others>>

----------------------------------------------------------------------------
(* Web search: the registry (crates/web_search/src/web_search.rs) and the  *)
(* tool (crates/agent/src/tools/web_search_tool.rs).  A provider is an     *)
(* Arc: its id and the instance behind it.  A string of bytes is a         *)
(* sequence of one-byte strings.                                           *)

ProviderIds == {"tavily", "exa", "zed"}

Provider(id, inst) == [id |-> id, inst |-> inst]

\* the provider of Zed is built and registered anew on every
\* DefaultModelChanged event
Providers ==
    {Provider("tavily", 1), Provider("exa", 1), Provider("zed", 1), Provider("zed", 2)}

\* the sequences over S of length at most n
SeqsUpTo(S, n) == UNION {[1..k -> S] : k \in 0..n}

\* the orders in which an iteration can visit the set S
Orders(S) ==
    {f \in [1..Cardinality(S) -> S] : \A i, j \in DOMAIN f : f[i] = f[j] => i = j}

Ids(providers) == [i \in 1..Len(providers) |-> providers[i].id]

\* register_provider and register_provider_arc
register_provider_arc(r, provider) ==
    [r EXCEPT !.providers = Upsert(@, provider.id, provider),
              !.active_provider = IF @ = NoProvider THEN provider ELSE @]

set_active_provider(r, provider) ==
    [r EXCEPT !.active_provider = provider,
              !.providers = Upsert(@, provider.id, provider)]

unregister_provider(r, id) ==
    [providers |-> Remove(r.providers, id),
     provider_priority |-> SelectSeq(r.provider_priority, LAMBDA pid : pid # id),
     active_provider |->
        IF r.active_provider.id = id THEN NoProvider ELSE r.active_provider]

set_provider_priority(r, priority) == [r EXCEPT !.provider_priority = priority]

\* if seen.insert(id) { ordered.push(provider) }
PushUnseen(ordered, provider) ==
    IF \E i \in 1..Len(ordered) : ordered[i].id = provider.id
    THEN ordered ELSE Append(ordered, provider)

RECURSIVE PushAllUnseen(_, _)
PushAllUnseen(ordered, providers) ==
    IF providers = <<>> THEN ordered
    ELSE PushAllUnseen(PushUnseen(ordered, providers[1]), Tail(providers))

\* (the priority list taken without the seen set)
PriorityOrderWithDuplicates(r, iteration) ==
    LET listed == SelectSeq(r.provider_priority,
                            LAMBDA pid : pid \in DOMAIN r.providers)
        first == [i \in 1..Len(listed) |-> r.providers[listed[i]]]
        active == IF r.active_provider = NoProvider THEN first
                  ELSE PushUnseen(first, r.active_provider)
    IN  PushAllUnseen(active, [i \in 1..Len(iteration) |-> r.providers[iteration[i]]])

\* providers_in_priority_order; `iteration` is the order in which the
\* HashMap of the providers is iterated
providers_in_priority_order(r, iteration) ==
    LET listed == SelectSeq(r.provider_priority,
                            LAMBDA pid : pid \in DOMAIN r.providers)
        first == PushAllUnseen(<<>>, [i \in 1..Len(listed) |-> r.providers[listed[i]]])
        active == IF r.active_provider = NoProvider THEN first
                  ELSE PushUnseen(first, r.active_provider)
    IN  PushAllUnseen(active, [i \in 1..Len(iteration) |-> r.providers[iteration[i]]])

\* providers.iter().position(|p| p.id() == id): 0 when there is none
Position(providers, id) ==
    IF \E i \in 1..Len(providers) : providers[i].id = id
    THEN CHOOSE i \in 1..Len(providers) :
            /\ providers[i].id = id
            /\ \A j \in 1..(i - 1) : providers[j].id # id
    ELSE 0

\* the preferred provider removed from its position and inserted at the front
MoveToFront(providers, preferred) ==
    LET pos == Position(providers, preferred)
    IN  IF preferred = None \/ pos = 0 THEN providers
        ELSE <<providers[pos]>> \o SubSeq(providers, 1, pos - 1)
             \o SubSeq(providers, pos + 1, Len(providers))

\* str::contains
Contains(text, pattern) ==
    \E i \in 1..(Len(text) - Len(pattern) + 1) :
        SubSeq(text, i, i + Len(pattern) - 1) = pattern

RetryableMarkers ==
    {<<"4", "2", "9">>, <<"5", "0", "0">>, <<"5", "0", "2">>, <<"5", "0", "3">>,
     <<"5", "0", "4">>, <<"t", "i", "m", "e", "o", "u", "t">>}

\* (no error taken as retryable)
NeverRetryable(msg) == FALSE

is_retryable_error(msg) == \E marker \in RetryableMarkers : Contains(msg, marker)

\* the bytes 0x80..0xBF, which continue a UTF-8 character
ContinuationBytes == {"0xA9"}

\* str::is_char_boundary
IsCharBoundary(text, index) ==
    \/ index = 0
    \/ index = Len(text)
    \/ index < Len(text) /\ text[index + 1] \notin ContinuationBytes

Panic == <<"panic">>

Ellipsis == <<".", ".", ".">>

\* (the text cut at its last space wherever that space lies)
TruncateAtAnySpace(text, max_length) ==
    IF Len(text) <= max_length THEN text
    ELSE IF ~IsCharBoundary(text, max_length) THEN Panic
    ELSE LET truncated == SubSeq(text, 1, max_length)
             spaces == {i \in 1..max_length : truncated[i] = " "}
             last_space == (CHOOSE i \in spaces : \A j \in spaces : j <= i) - 1
         IN  IF spaces # {}
             THEN SubSeq(truncated, 1, last_space) \o Ellipsis
             ELSE truncated \o Ellipsis

\* truncate_text: &text[..max_length] panics when max_length is not on a
\* character boundary
truncate_text(text, max_length) ==
    IF Len(text) <= max_length THEN text
    ELSE IF ~IsCharBoundary(text, max_length) THEN Panic
    ELSE LET truncated == SubSeq(text, 1, max_length)
             spaces == {i \in 1..max_length : truncated[i] = " "}
             last_space == (CHOOSE i \in spaces : \A j \in spaces : j <= i) - 1
         IN  IF spaces # {} /\ last_space > max_length \div 2
             THEN SubSeq(truncated, 1, last_space) \o Ellipsis
             ELSE truncated \o Ellipsis

SearchResult(url, text) == [url |-> url, text |-> text]

\* the runtime trimming of run: the results cut to max_results, every text
\* longer than snippet_length cut by truncate_text
TrimResponse(response, max_results, snippet_length) ==
    LET kept == SubSeq(response, 1,
                       IF Len(response) > max_results THEN max_results
                       ELSE Len(response))
        texts == [i \in 1..Len(kept) |->
                    IF Len(kept[i].text) > snippet_length
                    THEN truncate_text(kept[i].text, snippet_length)
                    ELSE kept[i].text]
    IN  [panicked |-> \E i \in 1..Len(kept) : texts[i] = Panic,
         results |-> [i \in 1..Len(kept) |-> [kept[i] EXCEPT !.text = texts[i]]]]

OkResult(response) == [ok |-> TRUE, response |-> response, err |-> <<>>]

ErrResult(err) == [ok |-> FALSE, response |-> <<>>, err |-> err]

\* format!("Searched the web using {}: {} results", provider_name, n)
SearchedUsingTitle(provider_name, n) ==
    <<"Searched the web using ", provider_name, ": ", ToString(n), " results">>

\* emit_update: its title and its content
EmitUpdate(response) ==
    [title |-> IF Len(response) = 1 THEN <<"Searched the web: ", "1 result">>
               ELSE <<"Searched the web: ", ToString(Len(response)), " results">>,
     has_content |-> TRUE, content |-> response]

\* format!("Web Search Failed (tried: {})", tried.join(", "))
FailedTitle(tried) ==
    <<"Web Search Failed (tried: ">>
    \o Join([i \in 1..Len(tried) |-> <<tried[i]>>], <<", ">>) \o <<")">>

TitleUpdate(title) == [title |-> title, has_content |-> FALSE, content |-> <<>>]

NoProvidersError == <<"Web search is not available. No providers configured.">>

(* The registry calls.  run reads the registry once, before it spawns its  *)
(* background task, so the registry is left alone once a call has started. *)

RegisterProviderArc(provider) ==
    /\ toolCall.pc = "idle"
    /\ registry' = register_provider_arc(registry, provider)
    /\ UNCHANGED <<queueVars, toolCall, agents, probe, store>>

SetActiveProvider(provider) ==
    /\ toolCall.pc = "idle"
    /\ registry' = set_active_provider(registry, provider)
    /\ UNCHANGED <<queueVars, toolCall, agents, probe, store>>

UnregisterProvider(id) ==
    /\ toolCall.pc = "idle"
    /\ registry' = unregister_provider(registry, id)
    /\ UNCHANGED <<queueVars, toolCall, agents, probe, store>>

SetProviderPriority(priority) ==
    /\ toolCall.pc = "idle"
    /\ registry' = set_provider_priority(registry, priority)
    /\ UNCHANGED <<queueVars, toolCall, agents, probe, store>>

\* WebSearchTool::run up to background_spawn: the candidates are computed and
\* the search of every candidate is invoked
Run(preferred, max_results, snippet_length, iteration) ==
    LET ordered == providers_in_priority_order(registry, iteration)
        providers == MoveToFront(ordered, preferred)
        started == [toolCall EXCEPT !.preferred = preferred,
                                    !.max_results = max_results,
                                    !.snippet_length = snippet_length,
                                    !.ordered = ordered,
                                    !.candidates = providers]
    IN  /\ toolCall.pc = "idle"
        /\ toolCall' =
              IF providers = <<>>
              THEN [started EXCEPT !.pc = "done",
                                   !.output = ErrResult(NoProvidersError)]
              ELSE [started EXCEPT !.pc = "await", !.invoked = Ids(providers)]
        /\ UNCHANGED <<queueVars, registry, agents, probe, store>>

\* One turn of the loop of the background task: the search of the next
\* candidate finishes with `result`.  After the last turn the task reports
\* the failure.
AwaitSearch(result) ==
    LET k == Len(toolCall.results) + 1
        provider_id == toolCall.candidates[k].id
        tried == Append(toolCall.tried, provider_id)
        awaited == [toolCall EXCEPT !.results = Append(@, result), !.tried = tried]
        trimmed == TrimResponse(result.response, toolCall.max_results,
                                toolCall.snippet_length)
        response == trimmed.results
        retryable == is_retryable_error(result.err)
    IN  /\ toolCall.pc = "await"
        /\ toolCall' =
              IF result.ok /\ trimmed.panicked
              THEN [awaited EXCEPT !.pc = "panicked"]
              ELSE IF result.ok
              THEN [awaited EXCEPT
                      !.pc = "done",
                      !.updates = @ \o <<TitleUpdate(SearchedUsingTitle(
                                                provider_id, Len(response))),
                                         EmitUpdate(response)>>,
                      !.output = OkResult(response)]
              ELSE IF retryable /\ k < Len(toolCall.candidates)
              THEN [awaited EXCEPT !.last_err = result.err]
              ELSE [awaited EXCEPT
                      !.pc = "done",
                      !.last_err = result.err,
                      !.updates = Append(@, TitleUpdate(FailedTitle(tried))),
                      !.output = ErrResult(result.err)]
        /\ UNCHANGED <<queueVars, registry, agents, probe, store>>

----------------------------------------------------------------------------
(* Agent registry (crates/agent/src/agent_registry.rs).  A tree is the set *)
(* of its files; a file is its path below the agent's directory, a         *)
(* sequence of names, and its bytes.  A name is a sequence of characters.  *)

File(path, data) == [path |-> path, data |-> data]

\* the byte of a character of a name
CharCode(c) ==
    CASE c = "." -> 46
      [] c = "/" -> 47
      [] c = "a" -> 97
      [] c = "d" -> 100
      [] c = "m" -> 109
      [] c = "p" -> 112
      [] c = "t" -> 116

\* Ord for String: the order of the bytes
RECURSIVE StrLess(_, _)
StrLess(a, b) ==
    IF b = <<>> THEN FALSE
    ELSE IF a = <<>> THEN TRUE
    ELSE IF a[1] # b[1] THEN CharCode(a[1]) < CharCode(b[1])
    ELSE StrLess(Tail(a), Tail(b))

\* the strings of the set S in ascending order
RECURSIVE SortStrings(_)
SortStrings(S) ==
    IF S = {} THEN <<>>
    ELSE LET first == CHOOSE x \in S : \A y \in S \ {x} : StrLess(x, y)
         IN  <<first>> \o SortStrings(S \ {first})

RECURSIVE Concat(_)
Concat(parts) == IF parts = <<>> THEN <<>> ELSE parts[1] \o Concat(Tail(parts))

\* hex::encode(hasher.finalize()): the digest stands for the bytes hashed
Sha256(bytes) == [sha256 |-> bytes]

\* the path of the asset below "{agent_id}/"
AssetPath(file) == Join(file.path, <<"/">>)

\* the hash of the data of the assets in the order of their paths
embedded_agent_checksum(tree) ==
    LET entries == SortStrings({AssetPath(file) : file \in tree})
        Data(asset_path) == (CHOOSE file \in tree : AssetPath(file) = asset_path).data
    IN  Sha256(Concat([i \in 1..Len(entries) |-> Data(entries[i])]))

\* the bytes hash_directory_fs feeds to the hasher: the entries of the
\* directory in the order of their names, a directory's entries in its place
RECURSIVE hash_directory_fs(_)
hash_directory_fs(tree) ==
    LET entries == SortStrings({file.path[1] : file \in tree})
        Entry(n) ==
            IF \E file \in tree : file.path = <<n>>
            THEN (CHOOSE file \in tree : file.path = <<n>>).data
            ELSE hash_directory_fs({File(Tail(file.path), file.data) :
                                      file \in {f \in tree : f.path[1] = n}})
    IN  Concat([i \in 1..Len(entries) |-> Entry(entries[i])])

compute_directory_checksum(tree) == Sha256(hash_directory_fs(tree))

\* asset_path.trim_start_matches("{agent_id}/")
RECURSIVE TrimStartMatches(_, _)
TrimStartMatches(path, agent_id) ==
    IF Len(path) > 1 /\ path[1] = <<agent_id>>
    THEN TrimStartMatches(Tail(path), agent_id) ELSE path

\* copy_agent_from_assets: the directory as it is after the copy
copy_agent_from_assets(agent_id, tree) ==
    {File(TrimStartMatches(file.path, agent_id), file.data) : file \in tree}

\* AgentRegistryManifest::new()
NewManifest == [agents |-> EmptyTable, exists |-> TRUE]

ManifestEntry(checksum, user_modified) ==
    [source |-> "builtin", checksum |-> checksum, user_modified |-> user_modified]

\* builtin_agent_ids
builtin_agent_ids(assets) == DOMAIN assets

\* One turn of the loop of seed_builtin_agents on the registry in hand: the
\* manifest in memory and the directories
SeedAgent(st, assets, agent_id) ==
    LET needs_seeding ==
            IF agent_id \in DOMAIN st.manifest.agents
            THEN st.disk[agent_id] = NoTree ELSE TRUE
    IN  IF needs_seeding
        THEN [st EXCEPT
                 !.disk[agent_id] = copy_agent_from_assets(agent_id, assets[agent_id]),
                 !.manifest.agents =
                     Upsert(@, agent_id,
                            ManifestEntry(embedded_agent_checksum(assets[agent_id]),
                                          FALSE))]
        ELSE st

\* (no modification is detected)
DetectNothing(st, agent_id) == st

\* One turn of the loop of detect_user_modifications
DetectAgent(st, agent_id) ==
    LET entry == st.manifest.agents[agent_id]
    IN  IF entry.source # "builtin" THEN st
        ELSE IF st.disk[agent_id] = NoTree
        THEN [st EXCEPT !.manifest.agents[agent_id].user_modified = FALSE]
        ELSE IF compute_directory_checksum(st.disk[agent_id]) # entry.checksum
        THEN [st EXCEPT !.manifest.agents[agent_id].user_modified = TRUE]
        ELSE st

\* One turn of the loop of check_and_upgrade
UpgradeAgent(st, assets, agent_id) ==
    LET source_checksum == embedded_agent_checksum(assets[agent_id])
        entry == st.manifest.agents[agent_id]
    IN  IF agent_id \notin DOMAIN st.manifest.agents THEN st
        ELSE IF entry.source # "builtin" \/ entry.checksum = source_checksum THEN st
        ELSE IF entry.user_modified
        THEN [st EXCEPT !.skipped = @ \cup {agent_id}]
        ELSE [st EXCEPT
                 !.disk[agent_id] = copy_agent_from_assets(agent_id, assets[agent_id]),
                 !.manifest.agents[agent_id] = ManifestEntry(source_checksum, FALSE)]

\* the loops of seed_builtin_agents, detect_user_modifications and
\* check_and_upgrade over the ids in `todo`
RECURSIVE seed_builtin_agents(_, _, _)
seed_builtin_agents(st, assets, todo) ==
    IF todo = {} THEN st
    ELSE LET agent_id == CHOOSE a \in todo : TRUE
         IN  seed_builtin_agents(SeedAgent(st, assets, agent_id), assets,
                                 todo \ {agent_id})

RECURSIVE detect_user_modifications(_, _)
detect_user_modifications(st, todo) ==
    IF todo = {} THEN st
    ELSE LET agent_id == CHOOSE a \in todo : TRUE
         IN  detect_user_modifications(DetectAgent(st, agent_id), todo \ {agent_id})

RECURSIVE check_and_upgrade(_, _, _)
check_and_upgrade(st, assets, todo) ==
    IF todo = {} THEN st
    ELSE LET agent_id == CHOOSE a \in todo : TRUE
         IN  check_and_upgrade(UpgradeAgent(st, assets, agent_id), assets,
                               todo \ {agent_id})

\* agent.toml
NameToml == <<"a", ".", "t">>

\* system_prompt.md
NamePrompt == <<"p", ".", "m", "d">>

\* save_manifest: index.json after the call
save_manifest(stateless, manifest_file, manifest) ==
    IF stateless THEN manifest_file ELSE manifest

AgentDirs == {"agents", "builtin", "custom"}

\* AgentRegistry::initialize: the manifest is loaded or created, the agents
\* are seeded, modifications detected, upgrades applied, the manifest saved
Initialize ==
    LET assets == agents.assets
        loaded == [manifest |-> IF agents.manifest_file.exists
                                THEN agents.manifest_file ELSE NewManifest,
                   disk |-> agents.disk, skipped |-> {}]
        seeded == seed_builtin_agents(loaded, assets, builtin_agent_ids(assets))
        detected == detect_user_modifications(seeded, DOMAIN seeded.manifest.agents)
        upgraded == check_and_upgrade(detected, assets, builtin_agent_ids(assets))
        returned == RegistryCall("initialize", None, ResultOk(Nothing))
    IN  /\ agents.runs < MaxInitializeRuns
        /\ agents' = IF agents.stateless
                      THEN [agents EXCEPT !.runs = @ + 1, !.call = returned]
                      ELSE [agents EXCEPT
                               !.dirs = AgentDirs,
                               !.disk = upgraded.disk,
                               !.manifest_file =
                                   save_manifest(agents.stateless, @, upgraded.manifest),
                               !.skipped = upgraded.skipped,
                               !.runs = @ + 1,
                               !.call = returned]
        /\ UNCHANGED <<queueVars, registry, toolCall, probe, store>>

\* The user changes, deletes or restores the files of an agent's directory
UserEdit(agent_id, tree) ==
    /\ agents.disk[agent_id] # tree
    /\ agents' = [agents EXCEPT
                     !.disk[agent_id] = tree,
                     !.dirs = IF tree = NoTree THEN @ ELSE @ \cup {"agents", "builtin"}]
    /\ UNCHANGED <<queueVars, registry, toolCall, probe, store>>

\* The next start is of a build with other embedded assets
NewBuild(assets) ==
    /\ agents.assets # assets
    /\ agents' = [agents EXCEPT !.assets = assets]
    /\ UNCHANGED <<queueVars, registry, toolCall, probe, store>>

\* Path::exists of a file of the directory
HasFile(tree, name) == \E file \in tree : file.path = <<name>>

FileData(tree, name) == (CHOOSE file \in tree : file.path = <<name>>).data

\* the first of builtin/{agent_id}/{name} and custom/{agent_id}/{name} that
\* exists, read and decoded (`reads`: reading and decoding succeed)
ReadFirst(r, agent_id, name, reads, otherwise) ==
    IF HasFile(r.disk[agent_id], name)
    THEN (IF reads THEN ResultOk(Some(FileData(r.disk[agent_id], name))) ELSE ResultErr)
    ELSE IF HasFile(r.custom[agent_id], name)
    THEN (IF reads THEN ResultOk(Some(FileData(r.custom[agent_id], name))) ELSE ResultErr)
    ELSE otherwise

load_agent_metadata(r, agent_id, reads) ==
    IF r.stateless THEN ResultOk(Nothing)
    ELSE ReadFirst(r, agent_id, NameToml, reads, ResultOk(Nothing))

get_agent_path(r, agent_id) ==
    IF r.stateless THEN Nothing
    ELSE IF r.disk[agent_id] # NoTree THEN Some(<<"builtin", agent_id>>)
    ELSE IF r.custom[agent_id] # NoTree THEN Some(<<"custom", agent_id>>)
    ELSE Nothing

\* BuiltinAgentAssets::get("{agent_id}/system_prompt.md")
EmbeddedPrompt(r, agent_id, reads) ==
    IF agent_id \in DOMAIN r.assets /\ HasFile(r.assets[agent_id], NamePrompt)
    THEN (IF reads THEN ResultOk(Some(FileData(r.assets[agent_id], NamePrompt)))
          ELSE ResultErr)
    ELSE ResultOk(Nothing)

\* (the flag is not looked at)
LoadPromptFromDisk(r, agent_id, reads) ==
    ReadFirst(r, agent_id, NamePrompt, reads, EmbeddedPrompt(r, agent_id, reads))

load_system_prompt(r, agent_id, reads) ==
    IF r.stateless THEN ResultOk(Nothing)
    ELSE ReadFirst(r, agent_id, NamePrompt, reads, EmbeddedPrompt(r, agent_id, reads))

\* AgentRegistry::new
AgentRegistryNew ==
    /\ agents' = [agents EXCEPT !.call = RegistryCall("new", None, ResultOk(Nothing))]
    /\ agents' # agents
    /\ UNCHANGED <<queueVars, registry, toolCall, probe, store>>

LoadAgentMetadata(agent_id, reads) ==
    /\ agents' = [agents EXCEPT
                     !.call = RegistryCall("load_agent_metadata", agent_id,
                                           load_agent_metadata(agents, agent_id, reads))]
    /\ agents' # agents
    /\ UNCHANGED <<queueVars, registry, toolCall, probe, store>>

GetAgentPath(agent_id) ==
    /\ agents' = [agents EXCEPT
                     !.call = RegistryCall("get_agent_path", agent_id,
                                           ResultOk(get_agent_path(agents, agent_id)))]
    /\ agents' # agents
    /\ UNCHANGED <<queueVars, registry, toolCall, probe, store>>

LoadSystemPrompt(agent_id, reads) ==
    /\ agents' = [agents EXCEPT
                     !.call = RegistryCall("load_system_prompt", agent_id,
                                           load_system_prompt(agents, agent_id, reads))]
    /\ agents' # agents
    /\ UNCHANGED <<queueVars, registry, toolCall, probe, store>>

----------------------------------------------------------------------------
(* Vector store (crates/agent_memory/src/sqlite_vector_store.rs).  An f32  *)
(* is NaN or a number; a vector is written by its length and its first two *)
(* components, every other component being 0.0.  A usize is written by its *)
(* four 16-bit digits, the highest first.                                  *)

F32(v) == [nan |-> FALSE, v |-> v]

NaN == [nan |-> TRUE, v |-> 0]

FMul(a, b) == IF a.nan \/ b.nan THEN NaN ELSE F32(a.v * b.v)

FAdd(a, b) == IF a.nan \/ b.nan THEN NaN ELSE F32(a.v + b.v)

\* a >= b of f32: false when either is NaN
FGe(a, b) == ~a.nan /\ ~b.nan /\ a.v >= b.v

\* a.partial_cmp(b).unwrap_or(Ordering::Equal)
PartialCmpOrEqual(a, b) ==
    IF a.nan \/ b.nan THEN "Equal"
    ELSE IF a.v < b.v THEN "Less"
    ELSE IF a.v > b.v THEN "Greater"
    ELSE "Equal"

Vector(len, x, y) == [len |-> len, head |-> <<x, y>>]

\* EmbeddingModel::name, version and dimension
ModelTag(model) ==
    CASE model = "BgeSmallEnV15" ->
            [name |-> "bge-small-en-v1.5", version |-> "1.0", dimension |-> 384]
      [] model = "OpenAiSmall" ->
            [name |-> "text-embedding-3-small", version |-> "1.0", dimension |-> 1536]
      [] model = "OpenAiLarge" ->
            [name |-> "text-embedding-3-large", version |-> "1.0", dimension |-> 3072]

\* match model_name.as_str(): an unknown name is taken for BGE
ModelOfName(name) ==
    CASE name = "bge-small-en-v1.5" -> "BgeSmallEnV15"
      [] name = "text-embedding-3-small" -> "OpenAiSmall"
      [] name = "text-embedding-3-large" -> "OpenAiLarge"
      [] OTHER -> "BgeSmallEnV15"

\* the struct Embedding: its fields are public
Embedding(vector, model, dimension) ==
    [vector |-> vector, model |-> model, dimension |-> dimension]

\* four bytes for each component
serialize_embedding(embedding) ==
    [bytes |-> embedding.vector.len * 4, head |-> embedding.vector.head]

\* Err for a blob whose size is not that of the model's dimension
deserialize_embedding(blob, model) ==
    IF blob.bytes % 4 # 0 \/ blob.bytes # ModelTag(model).dimension * 4
    THEN [ok |-> FALSE, vector |-> Vector(0, F32(0), F32(0))]
    ELSE [ok |-> TRUE, vector |-> Vector(blob.bytes \div 4, blob.head[1], blob.head[2])]

\* the dot product; None for vectors of different lengths
cosine_similarity(a, b) ==
    IF a.len # b.len THEN [ok |-> FALSE, value |-> F32(0)]
    ELSE [ok |-> TRUE,
          value |-> FAdd(FAdd(F32(0), FMul(a.head[1], b.head[1])),
                         FMul(a.head[2], b.head[2]))]

\* the row that store_session_embedding writes
EmbeddingRow(session_id, embedding) ==
    [session_id |-> session_id,
     embedding |-> serialize_embedding(embedding),
     embedding_model |-> ModelTag(embedding.model).name,
     embedding_model_version |-> ModelTag(embedding.model).version,
     embedding_dimension |-> embedding.dimension]

\* INSERT OR REPLACE INTO session_embeddings, the rows in rowid order: the
\* row of the session is deleted and the new row gets the next rowid
InsertOrReplaceEmbedding(rows, row) ==
    Append(SelectSeq(rows, LAMBDA r : r.session_id # row.session_id), row)

\* usize as i32: the low 32 bits, two's complement
AsI32(n) ==
    IF n[3] >= 32768 THEN (n[3] - 65536) * 65536 + n[4] ELSE n[3] * 65536 + n[4]

\* i32 as usize: sign extension
AsUsize(x) ==
    IF x >= 0 THEN <<0, 0, x \div 65536, x % 65536>>
    ELSE <<65535, 65535, (x \div 65536) + 65536, x % 65536>>

\* k <= n for a length k and a usize n
UsizeAtLeast(n, k) == n[1] > 0 \/ n[2] > 0 \/ n[3] > 0 \/ n[4] >= k

\* let limit = limit as i32; ... limit as usize
LimitAsUsize(n) == AsUsize(AsI32(n))

\* Vec::truncate
Truncate(v, n) == IF UsizeAtLeast(n, Len(v)) THEN v ELSE SubSeq(v, 1, n[4])

\* the comparator of the sort: b.1.partial_cmp(&a.1).unwrap_or(Equal)
BySimilarityDesc(a, b) == PartialCmpOrEqual(b.similarity, a.similarity)

\* insertion of x into a sorted sequence behind every element that does not
\* compare Greater than it
RECURSIVE InsertSorted(_, _)
InsertSorted(sorted, x) ==
    IF sorted = <<>> THEN <<x>>
    ELSE IF BySimilarityDesc(sorted[1], x) = "Greater"
         THEN <<x>> \o sorted
         ELSE <<sorted[1]>> \o InsertSorted(Tail(sorted), x)

\* slice::sort_by, a stable sort
RECURSIVE SortBySimilarity(_, _)
SortBySimilarity(sorted, rest) ==
    IF rest = <<>> THEN sorted
    ELSE SortBySimilarity(InsertSorted(sorted, rest[1]), Tail(rest))

\* SELECT session_id, embedding FROM session_embeddings WHERE ...
SelectByModel(rows, name, version, dimension) ==
    SelectSeq(rows, LAMBDA r : /\ r.embedding_model = name
                               /\ r.embedding_model_version = version
                               /\ r.embedding_dimension = dimension)

\* for (session_id, embedding_bytes) in rows: the pairs pushed to results
RECURSIVE ScoreRows(_, _, _, _)
ScoreRows(rows, model, query_vector, threshold) ==
    IF rows = <<>> THEN <<>>
    ELSE LET candidate == deserialize_embedding(rows[1].embedding, model)
             cosine == cosine_similarity(query_vector, candidate.vector)
             similarity == IF cosine.ok THEN cosine.value ELSE F32(0)
         IN (IF candidate.ok /\ FGe(similarity, threshold)
             THEN <<[session_id |-> rows[1].session_id, similarity |-> similarity]>>
             ELSE <<>>)
            \o ScoreRows(Tail(rows), model, query_vector, threshold)

search_similar_sessions(rows, query_embedding, lim, threshold) ==
    LET tag == ModelTag(query_embedding.model)
        selected == SelectByModel(rows, tag.name, tag.version, query_embedding.dimension)
        results == ScoreRows(selected, ModelOfName(tag.name),
                             query_embedding.vector, threshold)
    IN  Truncate(SortBySimilarity(<<>>, results), LimitAsUsize(lim))

\* store_session_embedding(session_id, embedding, ...) before the search
StoreSessionEmbedding(session_id, embedding) ==
    /\ probe.op = "store"
    /\ Len(probe.table) < MaxStoredRows
    /\ probe' = [probe EXCEPT !.table =
                    InsertOrReplaceEmbedding(@, EmbeddingRow(session_id, embedding))]
    /\ UNCHANGED <<queueVars, registry, toolCall, agents, store>>

\* search_similar_sessions(query_embedding, limit, threshold)
SearchSimilarSessions(query_embedding, lim, threshold) ==
    /\ probe.op = "store"
    /\ probe' = [probe EXCEPT
                    !.op = "search_similar_sessions",
                    !.input = [query_embedding |-> query_embedding, limit |-> lim,
                               threshold |-> threshold],
                    !.output = search_similar_sessions(probe.table, query_embedding,
                                                       lim, threshold)]
    /\ UNCHANGED <<queueVars, registry, toolCall, agents, store>>

----------------------------------------------------------------------------
(* DbThread::from_json (crates/agent/src/db.rs).  A payload is written by  *)
(* what the parsers make of it: whether it is JSON, its top-level version, *)
(* agent_id and agent_type, the DbThread that serde reads from it and the  *)
(* SerializedThread that legacy_thread reads from it.                      *)

\* DbThread::VERSION
VERSION == <<"0", ".", "4", ".", "0">>

\* str::starts_with
StartsWith(s, prefix) ==
    Len(s) >= Len(prefix) /\ SubSeq(s, 1, Len(prefix)) = prefix

Absent == [kind |-> "absent", text |-> <<>>]

JsonString(text) == [kind |-> "string", text |-> text]

\* a JSON value that is no string
JsonNumber == [kind |-> "number", text |-> <<>>]

\* (only the versions the program has written: 0.4.0 and 0.3.0)
WrittenVersionsOnly(version) ==
    version.kind = "string" /\ version.text \in {VERSION, <<"0", ".", "3", ".", "0">>}

\* the first two arms of the match on saved_thread_json.get("version")
DirectVersion(version) ==
    /\ version.kind = "string"
    /\ \/ version.text = VERSION
       \/ StartsWith(version.text, <<"0", ".", "3", ".">>)

RedactedThinkingPart == [type |-> "RedactedThinking", text |-> <<>>]

\* the content of a User message from the segments of a legacy message
RECURSIVE UserContent(_)
UserContent(segments) ==
    IF segments = <<>> THEN <<>>
    ELSE (IF segments[1].type \in {"Text", "Thinking"}
          THEN <<TextPart(segments[1].text)>> ELSE <<>>)
         \o UserContent(Tail(segments))

\* the content of an Agent message from the segments of a legacy message
RECURSIVE AgentContent(_)
AgentContent(segments) ==
    IF segments = <<>> THEN <<>>
    ELSE <<CASE segments[1].type = "Text" -> TextPart(segments[1].text)
             [] segments[1].type = "Thinking" -> ThinkingPart(segments[1].text)
             [] OTHER -> RedactedThinkingPart>>
         \o AgentContent(Tail(segments))

\* for (ix, msg) in thread.messages: the messages pushed
RECURSIVE UpgradeMessages(_)
UpgradeMessages(messages) ==
    IF messages = <<>> THEN <<>>
    ELSE LET msg == messages[1]
             content == UserContent(msg.segments)
         IN (CASE msg.role = "User" ->
                    <<UserMessage(IF content = <<>> /\ msg.context # <<>>
                                  THEN <<TextPart(msg.context)>> ELSE content)>>
               [] msg.role = "Assistant" ->
                    <<AgentMessage(AgentContent(msg.segments)
                                   \o [i \in 1..msg.tool_uses |-> ToolUsePart])>>
               [] OTHER -> <<>>)
            \o UpgradeMessages(Tail(messages))

upgrade_from_agent_1(thread) ==
    [messages |-> UpgradeMessages(thread.messages),
     agent_id |-> "native", agent_type |-> "Builtin"]

FromJsonResult(ok, path, thread) == [ok |-> ok, path |-> path, thread |-> thread]

NoThread == [messages |-> <<>>, agent_id |-> None, agent_type |-> None]

\* DbThread::from_json; `path` is the parser the payload was handed to
from_json(payload) ==
    IF ~payload.is_json THEN FromJsonResult(FALSE, "none", NoThread)
    ELSE IF DirectVersion(payload.version)
         THEN IF ~payload.thread.ok THEN FromJsonResult(FALSE, "direct", NoThread)
              ELSE FromJsonResult(TRUE, "direct",
                      [messages |-> payload.thread.messages,
                       agent_id |-> IF payload.agent_id = None
                                    THEN "native" ELSE payload.agent_id,
                       agent_type |-> IF payload.agent_type = None
                                      THEN "Builtin" ELSE payload.agent_type])
    ELSE IF ~payload.legacy.ok THEN FromJsonResult(FALSE, "legacy", NoThread)
         ELSE FromJsonResult(TRUE, "legacy", upgrade_from_agent_1(payload.legacy))

\* DbThread::from_json(json)
FromJson ==
    /\ probe.op = "payload"
    /\ probe' = [probe EXCEPT !.op = "from_json", !.output = from_json(probe.input)]
    /\ UNCHANGED <<queueVars, registry, toolCall, agents, store>>

----------------------------------------------------------------------------
(* normalize_text_for_embedding (crates/agent_memory/src/embedding.rs),    *)
(* applied to a text and then to its own output                            *)

\* normalize_text_for_embedding(text)
Normalize ==
    /\ probe.op = "text"
    /\ probe' = [probe EXCEPT !.op = "normalized",
                              !.output = normalize_text_for_embedding(probe.input)]
    /\ UNCHANGED <<queueVars, registry, toolCall, agents, store>>

\* normalize_text_for_embedding(&normalized)
NormalizeAgain ==
    /\ probe.op = "normalized"
    /\ probe' = [probe EXCEPT !.op = "renormalized",
                              !.again = normalize_text_for_embedding(probe.output)]
    /\ UNCHANGED <<queueVars, registry, toolCall, agents, store>>

----------------------------------------------------------------------------
(* Providers (crates/web_search_providers/src/tavily.rs, exa.rs): what a   *)
(* provider makes of one result of the response it received.  An absent    *)
(* field of the result is Nothing, a present one Some(its value).          *)

\* strip_html: for ch in text.chars()
RECURSIVE StripFrom(_, _, _)
StripFrom(text, i, in_tag) ==
    IF i > Len(text) THEN <<>>
    ELSE IF text[i] = "<" THEN StripFrom(text, i + 1, TRUE)
    ELSE IF text[i] = ">" THEN StripFrom(text, i + 1, FALSE)
    ELSE IF ~in_tag THEN <<text[i]>> \o StripFrom(text, i + 1, in_tag)
    ELSE StripFrom(text, i + 1, in_tag)

\* (nothing stripped)
KeepHtml(text) == text

strip_html(text) == StripFrom(text, 1, FALSE)

\* Option::or, Option::unwrap_or_default
OrDefault(content, snippet) ==
    IF content # Nothing THEN content[1]
    ELSE IF snippet # Nothing THEN snippet[1] ELSE <<>>

\* perform_tavily_search: the text of a result
TavilyText(result, snippet_length) ==
    truncate_text(strip_html(OrDefault(result.content, result.snippet)), snippet_length)

\* perform_exa_search: the text of a result
ExaText(result, snippet_length) ==
    LET text_parts == (IF result.text # Nothing THEN <<result.text[1]>> ELSE <<>>)
                      \o (IF result.highlights # Nothing THEN result.highlights[1]
                          ELSE <<>>)
    IN  truncate_text(Join(text_parts, <<" ">>), snippet_length)

\* perform_tavily_search maps a result of the response
PerformTavilySearch ==
    /\ probe.op = "response" /\ probe.provider = "tavily"
    /\ probe' = [probe EXCEPT !.op = "result",
                              !.output = TavilyText(probe.input, probe.snippet_length)]
    /\ UNCHANGED <<queueVars, registry, toolCall, agents, store>>

\* perform_exa_search maps a result of the response
PerformExaSearch ==
    /\ probe.op = "response" /\ probe.provider = "exa"
    /\ probe' = [probe EXCEPT !.op = "result",
                              !.output = ExaText(probe.input, probe.snippet_length)]
    /\ UNCHANGED <<queueVars, registry, toolCall, agents, store>>

----------------------------------------------------------------------------
(* The global embedding of an agent (crates/agent_memory/src/              *)
(* agent_memory.rs).  An f32 is written in fixed point, as the integer     *)
(* nearest below its value times FixedOne; a vector is the sequence of its *)
(* components.  A count converted to f32 is exact.                         *)

FixedOne == 10000

\* f32 division
FixedDiv(a, b) == (a * FixedOne) \div b

\* f32::sqrt of a sum of squares, which is in units of 1 / FixedOne^2
RECURSIVE SqrtBetween(_, _, _)
SqrtBetween(n, low, high) ==
    IF low = high THEN low
    ELSE LET mid == (low + high + 1) \div 2
         IN  IF mid * mid <= n THEN SqrtBetween(n, mid, high)
             ELSE SqrtBetween(n, low, mid - 1)

FixedSqrt(n) == SqrtBetween(n, 0, 4 * FixedOne)

RECURSIVE SumOfSquares(_)
SumOfSquares(vector) ==
    IF vector = <<>> THEN 0
    ELSE vector[1] * vector[1] + SumOfSquares(Tail(vector))

\* (the vector is left as it is)
NotNormalized(vector) == vector

\* Embedding::normalize
NormalizeVector(vector) ==
    LET norm == FixedSqrt(SumOfSquares(vector))
    IN  IF norm > 0 THEN [i \in 1..Len(vector) |-> FixedDiv(vector[i], norm)]
        ELSE vector

\* add_session_embedding_with_count: the row of agent_global_embeddings that
\* is stored; `current` is the row get_agent_embedding returned, if any
add_session_embedding_with_count(current, vector, current_count) ==
    IF current # Nothing
    THEN LET old_count == current_count
             old_mean == current[1].vector
             new_mean == [i \in 1..Len(old_mean) |->
                             FixedDiv(old_mean[i] * old_count + vector[i],
                                      (old_count + 1) * FixedOne)]
         IN  [vector |-> NormalizeVector(new_mean), session_count |-> current_count + 1]
    ELSE [vector |-> vector, session_count |-> 1]

RECURSIVE SumVectors(_, _)
SumVectors(embeddings, sum) ==
    IF embeddings = <<>> THEN sum
    ELSE SumVectors(Tail(embeddings),
                    [i \in 1..Len(sum) |-> sum[i] + embeddings[1][i]])

\* aggregate_embeddings_mean of a list that is not empty and of one dimension
aggregate_embeddings_mean(embeddings) ==
    LET sum == SumVectors(embeddings, [i \in 1..Len(embeddings[1]) |-> 0])
        count == Len(embeddings)
    IN  NormalizeVector([i \in 1..Len(sum) |-> FixedDiv(sum[i], count * FixedOne)])

\* update_global_embedding for the next completed session, one after the
\* other: session_count is read, the embedding is folded in and stored
FoldSessionEmbedding(vector) ==
    /\ probe.op = "fold"
    /\ Len(probe.input) < MaxFolds
    /\ LET current_count == IF probe.output = Nothing THEN 0
                            ELSE probe.output[1].session_count
       IN probe' = [probe EXCEPT
                       !.input = Append(@, vector),
                       !.output = Some(add_session_embedding_with_count(
                                          probe.output, vector, current_count))]
    /\ UNCHANGED <<queueVars, registry, toolCall, agents, store>>

----------------------------------------------------------------------------
(* Embedding queue: one fetch *)

\* let jobs = Self::fetch_pending_jobs(&executor, &connection, BATCH_SIZE).await
FetchPendingJobs ==
    /\ probe.op = "fetch"
    /\ probe.output = Nothing
    /\ probe' = [probe EXCEPT !.output = Some(fetch_pending_jobs(probe.input, BATCH_SIZE))]
    /\ UNCHANGED <<queueVars, registry, toolCall, agents, store>>

----------------------------------------------------------------------------
(* Agent registry: one agent on a new data directory *)

\* initialize on a data directory without manifest and without the agent's
\* directory: the agent is seeded and its directory compared with the manifest
SeedAndDetect ==
    /\ probe.op = "seed"
    /\ probe.output = Nothing
    /\ LET assets == [agent_id \in {probe.agent_id} |-> probe.input]
           loaded == [manifest |-> NewManifest,
                      disk |-> [agent_id \in {probe.agent_id} |-> NoTree],
                      skipped |-> {}]
           seeded == seed_builtin_agents(loaded, assets, builtin_agent_ids(assets))
           detected == detect_user_modifications(seeded, DOMAIN seeded.manifest.agents)
           upgraded == check_and_upgrade(detected, assets, builtin_agent_ids(assets))
       IN probe' = [probe EXCEPT !.output = Some(upgraded)]
    /\ UNCHANGED <<queueVars, registry, toolCall, agents, store>>

----------------------------------------------------------------------------
(* Web search registry: select_provider_by_priority *)

\* the first id of the priority list that is registered, else the active
\* provider (NoProvider when there is none)
select_provider_by_priority(r) ==
    LET listed == SelectSeq(r.provider_priority,
                            LAMBDA pid : pid \in DOMAIN r.providers)
    IN  IF listed # <<>> THEN r.providers[listed[1]] ELSE r.active_provider

SelectProviderByPriority ==
    /\ toolCall.pc = "idle"
    /\ probe' = [op |-> "select", output |-> select_provider_by_priority(registry)]
    /\ UNCHANGED <<queueVars, registry, toolCall, agents, store>>

----------------------------------------------------------------------------
(* DbThread::upgrade_from_agent_1: the loop over the legacy messages with  *)
(* the ids of the user messages, the tool uses and the token usage         *)

\* AgentMessageContent::ToolUse of the tool use with this id
ToolUse(id) == [ToolUsePart EXCEPT !.text = id]

\* (the first token usage stored under an id is kept)
InsertIfAbsent(table, key, row) ==
    IF key \in DOMAIN table THEN table ELSE Upsert(table, key, row)

\* request_token_usage.insert(last_user_message_id.clone(), token_usage)
InsertUsage(table, key, row) == Upsert(table, key, row)

\* the state of the loop before its first message
UpgradeStart ==
    [ix |-> 0, last_user_message_id |-> Nothing,
     request_token_usage |-> EmptyTable, messages |-> <<>>]

\* one turn of for (ix, msg) in thread.messages; UserMessageId::new() gives
\* an id no other message has: here the number of the turn
UpgradeTurn(acc, msg, usage) ==
    LET next == [acc EXCEPT !.ix = @ + 1]
        content == UserContent(msg.segments)
        id == acc.ix + 1
    IN  CASE msg.role = "User" ->
               [next EXCEPT
                  !.last_user_message_id = Some(id),
                  !.messages =
                     Append(@, [kind |-> "User", id |-> id,
                                content |-> IF content = <<>> /\ msg.context # <<>>
                                            THEN <<TextPart(msg.context)>>
                                            ELSE content])]
          [] msg.role = "Assistant" ->
               [next EXCEPT
                  !.request_token_usage =
                     IF acc.last_user_message_id # Nothing /\ acc.ix < Len(usage)
                     THEN InsertUsage(@, acc.last_user_message_id[1], usage[acc.ix + 1])
                     ELSE @,
                  !.messages =
                     Append(@, [kind |-> "Agent", id |-> 0,
                                content |->
                                   AgentContent(msg.segments)
                                   \o [i \in 1..Len(msg.tool_uses) |->
                                          ToolUse(msg.tool_uses[i])]])]
          [] OTHER -> next

RECURSIVE UpgradeLoop(_, _, _)
UpgradeLoop(acc, messages, usage) ==
    IF messages = <<>> THEN acc
    ELSE UpgradeLoop(UpgradeTurn(acc, messages[1], usage), Tail(messages), usage)

\* DbThread::upgrade_from_agent_1(thread)
UpgradeFromAgent1 ==
    /\ probe.op = "legacy"
    /\ LET done == UpgradeLoop(UpgradeStart, probe.input.messages,
                               probe.input.request_token_usage)
       IN  probe' = [probe EXCEPT
                        !.op = "upgraded",
                        !.output = [messages |-> done.messages,
                                    request_token_usage |-> done.request_token_usage]]
    /\ UNCHANGED <<queueVars, registry, toolCall, agents, store>>

----------------------------------------------------------------------------
(* truncate_text and the trimming of a response, applied to one input *)

\* truncate_text(&text, max_length)
TruncateText ==
    /\ probe.op = "text"
    /\ probe' = [probe EXCEPT !.op = "truncated",
                              !.output = truncate_text(probe.text, probe.max_length)]
    /\ UNCHANGED <<queueVars, registry, toolCall, agents, store>>

\* the Ok arm of run: response.results.truncate(max_results), then
\* truncate_text on every text longer than snippet_length
TrimResults ==
    /\ probe.op = "response"
    /\ probe' = [probe EXCEPT
                    !.op = "trimmed",
                    !.output = TrimResponse(probe.response, probe.max_results,
                                            probe.max_length)]
    /\ UNCHANGED <<queueVars, registry, toolCall, agents, store>>

----------------------------------------------------------------------------
(* Specifications *)

SaveOps ==
    \E id \in SessionIds, thread \in limit.threads, fail_at \in 0..5 :
        SaveThread(id, thread, fail_at)

QueueOps ==
    \/ \E id \in SessionIds, hash \in HashInputs : QueueJob(id, hash)
    \/ \E t \in BagToSet(tasks) : RunQueueJob(t)

WorkerOps ==
    \/ WorkerFetch
    \/ WorkerNextJob
    \/ WorkerLoad
    \/ \E ok \in BOOLEAN : WorkerGenerate(ok)
    \/ \E ok \in BOOLEAN : WorkerStore(ok)

RetryOps == \E t \in BagToSet(tasks) : RunUpdateJobRetry(t)

TaskOps ==
    \/ \E t \in BagToSet(tasks) : RunUpdateJobStatus(t)
    \/ \E t \in BagToSet(tasks) : RunMarkEmbeddingComplete(t)
    \/ \E t \in BagToSet(tasks) : GlobalSelectAgent(t)
    \/ \E t \in BagToSet(tasks) : GlobalLoadEmbedding(t)
    \/ \E t \in BagToSet(tasks) : GlobalSelectCount(t)
    \/ \E t \in BagToSet(tasks) : GlobalGetAgentEmbedding(t)
    \/ \E t \in BagToSet(tasks) : GlobalStore(t)

AllThreads == {ThreadNoText, ThreadHi, ThreadHiYo}

TextThreads == {ThreadHi, ThreadHiYo}

\* Saves of changing threads, the worker (its generator or store may fail)
\* and its tasks
Init == InitOf(Scenario(AllThreads, MaxSaves, 0, 0, MaxFaults, 0, 0))

Next == SaveOps \/ StartWorker \/ WorkerOps \/ TaskOps \/ RetryOps

Spec == Init /\ [][Next]_vars

\* Saves of which a statement may fail, the worker and its tasks
InitSave == InitOf(Scenario(AllThreads, MaxSaves, 0, MaxSaveFaults, 0, 0, 0))

SpecSave == InitSave /\ [][Next]_vars

\* Saves and queue_job calls for one text, the worker and its tasks
InitEnqueue == InitOf(Scenario({ThreadHi}, MaxSaves, MaxQueueCalls, 0, 0, 0, 0))

NextEnqueue ==
    SaveOps \/ QueueOps \/ StartWorker \/ WorkerOps \/ TaskOps \/ RetryOps

SpecEnqueue == InitEnqueue /\ [][NextEnqueue]_vars

\* One save, crashes and restarts; no attempt fails, so no task of
\* update_job_retry is spawned
InitCrash == InitOf(Scenario(AllThreads, CrashSaves, 0, 0, 0, MaxCrashes, 0))

NextCrash == SaveOps \/ StartQueue \/ WorkerOps \/ TaskOps \/ Crash

SpecCrash == InitCrash /\ [][NextCrash]_vars

\* A queued job whose every attempt fails, beside a saved thread
InitRetry ==
    InitOf(Scenario({ThreadHiYo}, RetrySaves, MaxQueueCalls, 0, 0, 0, RetryBacklog))

SpecRetry == InitRetry /\ [][NextEnqueue]_vars

\* Saves of one thread whose text changes and returns
InitRevert == InitOf(Scenario(TextThreads, RevertSaves, 0, 0, 0, 0, 0))

SpecRevert == InitRevert /\ [][Next]_vars

\* Saves of threads whose texts differ by a timestamp, the worker and its tasks
InitStamped == InitOf(Scenario(StampedThreads, StampedSaves, 0, 0, 0, 0, 0))

SpecStamped == InitStamped /\ [][Next]_vars

\* One thread is saved; the worker runs and every spawned task is run in the
\* end, in any order; a fetch, the generator or the store may fail
InitLive == InitOf(Scenario({ThreadHi}, LiveSaves, 0, 0, LiveFaults, 0, 0))

NextLive ==
    SaveOps \/ StartWorker \/ WorkerOps \/ WorkerFetchError \/ TaskOps \/ RetryOps

SpecLive ==
    /\ InitLive /\ [][NextLive]_vars
    /\ WF_vars(StartWorker) /\ WF_vars(WorkerOps) /\ WF_vars(TaskOps \/ RetryOps)

DeleteOps == \E id \in SessionIds : DeleteThread(id)

\* Saves and deletions of one thread while the worker runs
InitDelete == InitOf(Scenario(TextThreads, DeleteSaves, 0, 0, 0, 0, 0))

NextDelete == Next \/ DeleteOps

SpecDelete == InitDelete /\ [][NextDelete]_vars

LegacyIds == {"s1", "s2"}

\* Saves and deletions of threads with and without text while the worker runs
InitProcess == InitOf(Scenario(AllThreads, MaxSaves, 0, 0, 0, 0, 0))

SpecProcess == InitProcess /\ [][NextDelete]_vars


\* One saved thread whose embedding fails again and again
InitFailing == InitOf(Scenario({ThreadHi}, FailingSaves, 0, 0, FailingFaults, 0, 0))

SpecFailing == InitFailing /\ [][Next]_vars


\* threads.db as a build without chat_sessions left it: threads rows only
LegacyDbs ==
    {[EmptyDb EXCEPT !.foreign_keys = foreign_keys, !.threads = threads] :
        foreign_keys \in BOOLEAN,
        threads \in UNION {[ids -> {ThreadHi}] : ids \in SUBSET LegacyIds}}

OpenOps == \E fail_at \in 0..(Cardinality(LegacyIds) + 1) : OpenDatabase(fail_at)

\* Runs of the program on a database of legacy threads: the database is
\* opened (a statement of the migration may fail), threads are saved and
\* deleted, the process ends and the database is opened again
InitMigrate ==
    /\ registry = EmptyRegistry
    /\ toolCall = NoCall({}, {})
    /\ agents = NoAgents
    /\ probe = NoProbe
    /\ QueueIdle(Scenario({ThreadHi, ThreadNoText}, MigrateSaves, 0, 0, 0, 0, 0))
    /\ db \in LegacyDbs
    /\ store = [open |-> FALSE, opens |-> 0, faults |-> 0, result |-> None]

NextMigrate ==
    \/ OpenOps
    \/ store.open /\ SaveOps
    \/ store.open /\ DeleteOps
    \/ Exit

SpecMigrate == InitMigrate /\ [][NextMigrate]_vars

\* Two jobs of one agent whose global updates interleave
InitGlobal == InitOf(Scenario(TextThreads, GlobalSaves, 0, 0, 0, 0, GlobalBacklog))

SpecGlobal == InitGlobal /\ [][Next]_vars

(* Web search *)

Error429 == <<"H", "T", "T", "P", " ", "4", "2", "9">>

ErrorTimeout == <<"t", "i", "m", "e", "o", "u", "t">>

Error503 == <<"5", "0", "3", " ", "b", "u", "s", "y">>

Error401 == <<"H", "T", "T", "P", " ", "4", "0", "1">>

Error505 == <<"5", "0", " ", "5", "0", "5">>

ErrorTexts == {Error429, ErrorTimeout, Error503, Error401, Error505}

ResponseNone == <<>>

ResponseOne == <<SearchResult("u1", <<"a", "b">>)>>

ResponseThree ==
    <<SearchResult("u2", <<"a", "b", "c", " ", "d", "e">>),
      SearchResult("u3", <<"a", "b", " ", "c", "d", "e">>),
      SearchResult("u4", <<"a", "b", "c", "d">>)>>

Responses == {ResponseNone, ResponseOne, ResponseThree}

MaxResultsSettings == {1, 2}

SnippetLengths == {4}

RegisterOps == \E provider \in Providers : RegisterProviderArc(provider)

RegistryOps ==
    \/ \E provider \in Providers : SetActiveProvider(provider)
    \/ \E id \in ProviderIds : UnregisterProvider(id)
    \/ \E priority \in SeqsUpTo(ProviderIds, MaxPriorityLen) :
          SetProviderPriority(priority)

RunOps ==
    \/ \E preferred \in ProviderIds \cup {None}, max_results \in MaxResultsSettings,
          snippet_length \in SnippetLengths,
          iteration \in Orders(DOMAIN registry.providers) :
          Run(preferred, max_results, snippet_length, iteration)
    \/ \E result \in {OkResult(r) : r \in toolCall.responses}
                     \cup {ErrResult(e) : e \in toolCall.errors} :
          AwaitSearch(result)

IdleScenario == Scenario({}, 0, 0, 0, 0, 0, 0)

WebInit(responses, errors) ==
    /\ registry = EmptyRegistry
    /\ toolCall = NoCall(responses, errors)
    /\ agents = NoAgents
    /\ probe = NoProbe
    /\ QueueInit(IdleScenario)

\* Providers are registered and the tool runs; the searches return any of
\* the responses and errors
InitDispatch == WebInit(Responses, ErrorTexts)

NextDispatch == RegisterOps \/ RunOps

SpecDispatch == InitDispatch /\ [][NextDispatch]_vars

\* Every call of the registry, then the tool runs
InitRegistry == WebInit({ResponseOne}, {Error429})

NextRegistry == RegisterOps \/ RegistryOps \/ RunOps

SpecRegistry == InitRegistry /\ [][NextRegistry]_vars

(* Agent registry *)

AssetsV1 ==
    [julia |-> {File(<<NameToml>>, <<"t1">>), File(<<NamePrompt>>, <<"p1">>)},
     orb |-> {File(<<NameToml>>, <<"t3">>)}]

AssetsV2 ==
    [julia |-> {File(<<NameToml>>, <<"t1">>), File(<<NamePrompt>>, <<"p2">>)},
     orb |-> {File(<<NameToml>>, <<"t3">>)}]

Builds == {AssetsV1, AssetsV2}

\* what the user can leave in an agent's directory
UserTrees ==
    {NoTree,
     {File(<<NameToml>>, <<"t1">>)},
     {File(<<NameToml>>, <<"t1">>), File(<<NamePrompt>>, <<"pu">>)}}
    \cup {assets[agent_id] : assets \in Builds, agent_id \in AgentIds}

AgentOps ==
    \/ Initialize
    \/ \E agent_id \in AgentIds, tree \in UserTrees : UserEdit(agent_id, tree)
    \/ \E assets \in Builds : NewBuild(assets)

\* Runs of initialize of two builds, the user editing the directories between
InitAgents ==
    /\ registry = EmptyRegistry
    /\ toolCall = NoCall({}, {})
    /\ agents = [NoAgents EXCEPT !.assets = AssetsV1]
    /\ probe = NoProbe
    /\ QueueInit(IdleScenario)

SpecAgents == InitAgents /\ [][AgentOps]_vars

\* the data directories a stateless or stateful process may find
FoundManifests ==
    {NoManifest,
     [agents |-> [julia |-> ManifestEntry(embedded_agent_checksum(AssetsV1.julia), FALSE)],
      exists |-> TRUE]}

FoundAgents ==
    {[NoAgents EXCEPT !.assets = assets, !.stateless = stateless,
                      !.disk["julia"] = tree, !.custom["orb"] = custom,
                      !.manifest_file = manifest_file,
                      !.dirs = IF tree = NoTree /\ custom = NoTree /\ ~manifest_file.exists
                               THEN {} ELSE AgentDirs] :
        assets \in Builds, stateless \in BOOLEAN, tree \in UserTrees,
        custom \in {NoTree, {File(<<NamePrompt>>, <<"pc">>)}},
        manifest_file \in FoundManifests}

StatelessOps ==
    \/ AgentRegistryNew
    \/ Initialize
    \/ \E agent_id \in AgentIds, reads \in BOOLEAN : LoadAgentMetadata(agent_id, reads)
    \/ \E agent_id \in AgentIds : GetAgentPath(agent_id)
    \/ \E agent_id \in AgentIds, reads \in BOOLEAN : LoadSystemPrompt(agent_id, reads)

\* Calls of the registry of a process, stateless or not
InitStateless ==
    /\ registry = EmptyRegistry
    /\ toolCall = NoCall({}, {})
    /\ agents \in FoundAgents
    /\ probe = NoProbe
    /\ QueueInit(IdleScenario)

SpecStateless == InitStateless /\ [][StatelessOps]_vars

----------------------------------------------------------------------------
(* Vector store *)

UnitX == Vector(384, F32(1), F32(0))

UnitY == Vector(384, F32(0), F32(1))

\* embeddings of BGE, one with NaN components, one of the small OpenAI model,
\* and one built with a vector that is not of the model's dimension
StoredEmbeddings ==
    {Embedding(UnitX, "BgeSmallEnV15", 384),
     Embedding(UnitY, "BgeSmallEnV15", 384),
     Embedding(Vector(384, NaN, F32(0)), "BgeSmallEnV15", 384),
     Embedding(Vector(1536, F32(1), F32(0)), "OpenAiSmall", 1536),
     Embedding(Vector(2, F32(1), F32(0)), "BgeSmallEnV15", 384)}

QueryEmbeddings ==
    {Embedding(UnitX, "BgeSmallEnV15", 384),
     Embedding(Vector(1536, F32(1), F32(0)), "OpenAiSmall", 1536)}

\* 0, 1, 2, 2^31, 2^32 + 1 and usize::MAX
Limits ==
    {<<0, 0, 0, 0>>, <<0, 0, 0, 1>>, <<0, 0, 0, 2>>, <<0, 0, 32768, 0>>,
     <<0, 1, 0, 1>>, <<65535, 65535, 65535, 65535>>}

Thresholds == {F32(0), F32(1)}

EmbeddedSessions == {"s1", "s2", "s3"}

SearchOps ==
    \/ \E session_id \in EmbeddedSessions, embedding \in StoredEmbeddings :
          StoreSessionEmbedding(session_id, embedding)
    \/ \E query_embedding \in QueryEmbeddings, lim \in Limits, threshold \in Thresholds :
          SearchSimilarSessions(query_embedding, lim, threshold)

\* Embeddings are stored, then the table is searched
InitSearch ==
    /\ registry = EmptyRegistry
    /\ toolCall = NoCall({}, {})
    /\ agents = NoAgents
    /\ probe = [op |-> "store", table |-> <<>>, input |-> <<>>, output |-> <<>>]
    /\ QueueInit(IdleScenario)

SpecSearch == InitSearch /\ [][SearchOps]_vars

----------------------------------------------------------------------------
(* DbThread::from_json *)

VersionTexts ==
    {VERSION,
     <<"0", ".", "3", ".", "0">>, <<"0", ".", "3", ".", "1", "2">>, <<"0", ".", "3", ".">>,
     <<"0", ".", "3">>, <<"0", ".", "2", ".", "0">>, <<"0", ".", "4", ".", "0", "0">>,
     <<"1", "0", ".", "3", ".", "0">>, <<>>}

Versions == {Absent, JsonNumber} \cup {JsonString(text) : text \in VersionTexts}

LegacyMessage(role, segments, context, tool_uses) ==
    [role |-> role, segments |-> segments, context |-> context, tool_uses |-> tool_uses]

Segment(type, text) == [type |-> type, text |-> text]

LegacySystem == LegacyMessage("System", <<Segment("Text", <<"S">>)>>, <<>>, 0)

LegacyUser ==
    LegacyMessage("User",
                  <<Segment("Thinking", <<"H", "i">>), Segment("RedactedThinking", <<>>)>>,
                  <<>>, 0)

LegacyUserContext == LegacyMessage("User", <<>>, <<"c", "t", "x">>, 0)

LegacyAssistant ==
    LegacyMessage("Assistant",
                  <<Segment("Text", <<"Y", "o">>), Segment("RedactedThinking", <<>>)>>,
                  <<>>, 1)

\* what legacy_thread::SerializedThread::from_json makes of the payload
LegacyThreads ==
    {[ok |-> FALSE, messages |-> <<>>],
     [ok |-> TRUE, messages |-> <<LegacySystem, LegacyUser, LegacyAssistant>>],
     [ok |-> TRUE, messages |-> <<LegacyUserContext, LegacySystem>>]}

\* what serde makes of the payload as a DbThread
DirectThreads ==
    {[ok |-> FALSE, messages |-> <<>>],
     [ok |-> TRUE, messages |-> ThreadHiYo.messages]}

Payloads ==
    {[is_json |-> FALSE, version |-> Absent, agent_id |-> None, agent_type |-> None,
      thread |-> [ok |-> FALSE, messages |-> <<>>],
      legacy |-> [ok |-> FALSE, messages |-> <<>>]]}
    \cup [is_json : {TRUE}, version : Versions,
          agent_id : {None, "native", "julia"},
          agent_type : {None, "Builtin", "Custom"},
          thread : DirectThreads, legacy : LegacyThreads]

\* A payload is read
InitJson ==
    /\ registry = EmptyRegistry
    /\ toolCall = NoCall({}, {})
    /\ agents = NoAgents
    /\ \E payload \in Payloads :
          probe = [op |-> "payload", input |-> payload,
                   output |-> FromJsonResult(FALSE, "none", NoThread)]
    /\ QueueInit(IdleScenario)

SpecJson == InitJson /\ [][FromJson]_vars

----------------------------------------------------------------------------
(* normalize_text_for_embedding *)

MaxPieces == 4

TextPieces ==
    {<<"2", "0", "2", "4", "-", "0", "1", "-", "0", "2">>,
     <<"1", "0", ":", "3", "0", ":", "0", "0">>,
     <<" ">>, <<"\n">>, <<"T">>, <<"a">>}

InputTexts ==
    {Concat(pieces) : pieces \in UNION {[1..n -> TextPieces] : n \in 0..MaxPieces}}

NormalizeOps == Normalize \/ NormalizeAgain

\* A text is normalized twice
InitNormalize ==
    /\ registry = EmptyRegistry
    /\ toolCall = NoCall({}, {})
    /\ agents = NoAgents
    /\ \E text \in InputTexts :
          probe = [op |-> "text", input |-> text, output |-> <<>>, again |-> <<>>]
    /\ QueueInit(IdleScenario)

SpecNormalize == InitNormalize /\ [][NormalizeOps]_vars

----------------------------------------------------------------------------
(* Providers *)

MaxWirePieces == 3

WirePieces == {<<"<", "b", ">">>, <<"<", "/", "b", ">">>, <<"a", " ", "c">>, <<"<">>, <<">">>}

WireTexts ==
    {Concat(pieces) : pieces \in UNION {[1..n -> WirePieces] : n \in 0..MaxWirePieces}}

WireLengths == {4, 100}

TavilyResults ==
    [content : {Some(text) : text \in WireTexts} \cup {Nothing},
     snippet : {Nothing, Some(<<"<", "i", ">", "s">>)}]

ExaResults ==
    [text : {Some(text) : text \in WireTexts} \cup {Nothing},
     highlights : {Nothing, Some(<<>>), Some(<< <<"<", "e", "m", ">", "h">>, <<"k">> >>)}]

ProviderOps == PerformTavilySearch \/ PerformExaSearch

\* A provider has received a response with one result
InitProviders ==
    /\ registry = EmptyRegistry
    /\ toolCall = NoCall({}, {})
    /\ agents = NoAgents
    /\ \E snippet_length \in WireLengths :
          \/ \E result \in TavilyResults :
                probe = [op |-> "response", provider |-> "tavily", input |-> result,
                         snippet_length |-> snippet_length, output |-> <<>>]
          \/ \E result \in ExaResults :
                probe = [op |-> "response", provider |-> "exa", input |-> result,
                         snippet_length |-> snippet_length, output |-> <<>>]
    /\ QueueInit(IdleScenario)

SpecProviders == InitProviders /\ [][ProviderOps]_vars

----------------------------------------------------------------------------
(* The global embedding of an agent *)

\* session embeddings of unit length: (1, 0), (0, 1), (0.6, 0.8), (0.8, -0.6)
\* and (-1, 0)
SessionVectors ==
    {<<FixedOne, 0>>, <<0, FixedOne>>, <<6000, 8000>>, <<8000, -6000>>, <<-FixedOne, 0>>}

FoldOps == \E vector \in SessionVectors : FoldSessionEmbedding(vector)

\* The sessions of one agent complete one after the other
InitFold ==
    /\ registry = EmptyRegistry
    /\ toolCall = NoCall({}, {})
    /\ agents = NoAgents
    /\ probe = [op |-> "fold", input |-> <<>>, output |-> Nothing]
    /\ QueueInit(IdleScenario)

SpecFold == InitFold /\ [][FoldOps]_vars

----------------------------------------------------------------------------
(* One fetch *)

\* session ids in ascending order; every job is for the text "Hi", so the
\* job ids are in the same order
QueuedSessions ==
    <<"s01", "s02", "s03", "s04", "s05", "s06", "s07",
      "s08", "s09", "s10", "s11", "s12", "s13", "s14">>

\* created_at of the i-th inserted row of n
CreatedAt(times, i, n) ==
    CASE times = "same" -> 1
      [] times = "rising" -> i
      [] times = "falling" -> n + 1 - i
      [] times = "pairs" -> (i + 1) \div 2

StatusAt(statuses, i) ==
    CASE statuses = "pending" -> "pending"
      [] statuses = "mixed" -> (IF i % 3 = 0 THEN "completed" ELSE "pending")
      [] statuses = "done" -> (IF i % 2 = 0 THEN "failed" ELSE "processing")

\* embedding_jobs of n rows in the order they were inserted
QueuedRows(n, ids, times, statuses) ==
    [i \in 1..n |->
        [JobRow(QueuedSessions[IF ids = "rising" THEN i ELSE n + 1 - i],
                content_hash(<<"H", "i">>), CreatedAt(times, i, n))
            EXCEPT !.status = StatusAt(statuses, i)]]

QueuedTables ==
    {QueuedRows(n, ids, times, statuses) :
        n \in 0..MaxQueued, ids \in {"rising", "falling"},
        times \in {"same", "rising", "falling", "pairs"},
        statuses \in {"pending", "mixed", "done"}}

\* The worker fetches once from a table of jobs
InitFetch ==
    /\ registry = EmptyRegistry
    /\ toolCall = NoCall({}, {})
    /\ agents = NoAgents
    /\ probe \in {[op |-> "fetch", input |-> jobs, output |-> Nothing] :
                     jobs \in QueuedTables}
    /\ QueueInit(IdleScenario)

SpecFetch == InitFetch /\ [][FetchPendingJobs]_vars

----------------------------------------------------------------------------
(* Embedded trees *)

\* names of directories: "a" is a prefix of the file name a.t, "d" is the
\* directory name of the agent d
DirA == <<"a">>

DirD == <<"d">>

\* the files an embedded tree can hold, each with its own bytes
EmbeddedFiles ==
    {File(<<NameToml>>, <<"1">>), File(<<NamePrompt>>, <<"2">>),
     File(<<DirA, NamePrompt>>, <<"3">>), File(<<DirA, NameToml>>, <<"4">>),
     File(<<DirD, NameToml>>, <<"5">>), File(<<DirD, DirD, NamePrompt>>, <<"6">>)}

EmbeddedAgentIds == {"d", "m"}

\* the trees of at most MaxTreeFiles files whose files the copy keeps apart
EmbeddedTrees(agent_id) ==
    {tree \in SUBSET EmbeddedFiles :
        /\ tree # {}
        /\ Cardinality(tree) <= MaxTreeFiles
        /\ Cardinality({file.path : file \in copy_agent_from_assets(agent_id, tree)})
              = Cardinality(tree)}

\* An agent of the build is seeded on a new data directory
InitTrees ==
    /\ registry = EmptyRegistry
    /\ toolCall = NoCall({}, {})
    /\ agents = NoAgents
    /\ \E agent_id \in EmbeddedAgentIds, tree \in SUBSET EmbeddedFiles :
          /\ tree \in EmbeddedTrees(agent_id)
          /\ probe = [op |-> "seed", agent_id |-> agent_id, input |-> tree,
                      output |-> Nothing]
    /\ QueueInit(IdleScenario)

SpecTrees == InitTrees /\ [][SeedAndDetect]_vars

----------------------------------------------------------------------------
(* Agent registry: upgrades *)

\* a build whose agent julia has the file a.t and the directory a
AssetsV3 ==
    [julia |-> {File(<<NameToml>>, <<"t1">>), File(<<DirA, NameToml>>, <<"n1">>)},
     orb |-> {File(<<NameToml>>, <<"t3">>)}]

UpgradeBuilds == {AssetsV1, AssetsV2, AssetsV3}

UpgradeOps ==
    \/ Initialize
    \/ \E agent_id \in AgentIds, tree \in UserTrees : UserEdit(agent_id, tree)
    \/ \E assets \in UpgradeBuilds : NewBuild(assets)

\* Runs of initialize of the builds, from the first start of any of them, the
\* user editing the directories between
InitUpgrade ==
    /\ registry = EmptyRegistry
    /\ toolCall = NoCall({}, {})
    /\ \E assets \in UpgradeBuilds : agents = [NoAgents EXCEPT !.assets = assets]
    /\ probe = NoProbe
    /\ QueueInit(IdleScenario)

SpecUpgrade == InitUpgrade /\ [][UpgradeOps]_vars

\* Every call of the registry, then the selection by priority
NextSelect == RegisterOps \/ RegistryOps \/ SelectProviderByPriority

SpecSelect == InitRegistry /\ [][NextSelect]_vars

----------------------------------------------------------------------------
(* DbThread::upgrade_from_agent_1: token usage and tool uses *)

SerializedMessage(role, segments, tool_uses) ==
    [role |-> role, segments |-> segments, context |-> <<>>, tool_uses |-> tool_uses]

SerializedMessages ==
    {SerializedMessage("System", <<Segment("Text", <<"S">>)>>, <<>>),
     SerializedMessage("User", <<Segment("Text", <<"H", "i">>)>>, <<>>),
     SerializedMessage("Assistant", <<Segment("Text", <<"Y", "o">>)>>, <<"t1", "t2">>),
     SerializedMessage("Assistant",
                       <<Segment("Thinking", <<"H", "m">>), Segment("Text", <<"Y", "o">>)>>,
                       <<"t2", "t1">>)}

\* the token usages of the requests (their total token counts)
TokenUsages == {10, 20}

\* A legacy thread is upgraded
InitLegacy ==
    /\ registry = EmptyRegistry
    /\ toolCall = NoCall({}, {})
    /\ agents = NoAgents
    /\ \E messages \in SeqsUpTo(SerializedMessages, MaxLegacyMessages),
          usage \in SeqsUpTo(TokenUsages, MaxLegacyMessages) :
          probe = [op |-> "legacy",
                   input |-> [messages |-> messages, request_token_usage |-> usage],
                   output |-> [messages |-> <<>>, request_token_usage |-> EmptyTable]]
    /\ QueueInit(IdleScenario)

SpecLegacy == InitLegacy /\ [][UpgradeFromAgent1]_vars

----------------------------------------------------------------------------
(* truncate_text *)

\* the bytes of the texts: a letter, the space, and the two bytes of U+00E9
Bytes == {"a", " ", "0xC3", "0xA9"}

\* str: the lead byte 0xC3 is followed by a continuation byte, and a
\* continuation byte follows the lead byte
IsUtf8(text) ==
    \A i \in 1..Len(text) :
        /\ text[i] = "0xC3" => i < Len(text) /\ text[i + 1] \in ContinuationBytes
        /\ text[i] \in ContinuationBytes => i > 1 /\ text[i - 1] = "0xC3"

Utf8Texts == {text \in SeqsUpTo(Bytes, MaxTextLen) : IsUtf8(text)}

\* the results of a provider: a short text, a text with a space after the
\* middle of the first four bytes, one with a space at the middle, one
\* without a space, one with a character across byte 4
Snippets ==
    {SearchResult("u1", <<"a", "a">>),
     SearchResult("u2", <<"a", "a", "a", " ", "a", "a">>),
     SearchResult("u3", <<"a", "a", " ", "a", "a", "a">>),
     SearchResult("u4", <<"a", "a", "a", "a", "a">>),
     SearchResult("u5", <<"a", "a", "a", "0xC3", "0xA9">>)}

TrimLengths == {4}

\* truncate_text gets a text and a length; run gets a response
InitTruncate ==
    /\ registry = EmptyRegistry
    /\ toolCall = NoCall({}, {})
    /\ agents = NoAgents
    /\ \/ \E text \in Utf8Texts, max_length \in 0..MaxTextLen :
             probe = [op |-> "text", text |-> text, max_length |-> max_length,
                      response |-> <<>>, max_results |-> 0, output |-> <<>>]
       \/ \E response \in SeqsUpTo(Snippets, MaxResponseLen),
             max_results \in 1..MaxResponseLen, snippet_length \in TrimLengths :
             probe = [op |-> "response", text |-> <<>>, max_length |-> snippet_length,
                      response |-> response, max_results |-> max_results,
                      output |-> <<>>]
    /\ QueueInit(IdleScenario)

NextTruncate == TruncateText \/ TrimResults

SpecTruncate == InitTruncate /\ [][NextTruncate]_vars

----------------------------------------------------------------------------
(* Properties *)

JobIndex(jobs, job_id) == CHOOSE i \in 1..Len(jobs) : jobs[i].job_id = job_id

JobIds(jobs) == {jobs[i].job_id : i \in 1..Len(jobs)}

SessionHash(d, id) == content_hash(extract_session_text(d.threads[id].messages))

AllowedStatusChanges ==
    {<<"pending", "processing">>, <<"processing", "completed">>,
     <<"processing", "pending">>, <<"processing", "failed">>}

\* C1: a job's persisted status changes only along pending->processing,
\* processing->completed, processing->pending and processing->failed (so a
\* completed or failed job keeps its status), in every step of every run.
C1_StatusLifecycle ==
    [][\A j \in JobIds(db.embedding_jobs) \cap JobIds(db'.embedding_jobs) :
         LET old == db.embedding_jobs[JobIndex(db.embedding_jobs, j)].status
             new == db'.embedding_jobs[JobIndex(db'.embedding_jobs, j)].status
         IN old = new \/ <<old, new>> \in AllowedStatusChanges]_vars

\* no job attempt is half-done: the worker is between jobs and every detached
\* task has finished
Quiescent == worker.pc \in {"down", "fetch", "next"} /\ tasks = EmptyBag

\* C2: whenever no job attempt is half-done, a chat_sessions row has
\* pending_embedding = 1 if and only if the session has no session_embeddings
\* row or that row's content_hash differs from the hash of the saved thread's
\* session text.
C2_PendingIffStale ==
    Quiescent =>
        \A id \in DOMAIN db.chat_sessions \cap DOMAIN db.threads :
            (db.chat_sessions[id].pending_embedding = 1)
                <=> (StoredHash(db, id) = None \/ StoredHash(db, id) # SessionHash(db, id))

SaveStep == used'.saves # used.saves

\* C3: a save_thread call in which a statement of the savepoint fails returns
\* an error and leaves every table as it was before the call.
C3_FailedSaveChangesNothing ==
    [][(SaveStep /\ saveCall'.failed_at # 0) => db' = db]_vars

\* a save of a session that was not stored failed at its last statement, after
\* the thread row, the session row and the pending flag were written
C3_Witness ==
    /\ saveCall.failed_at = 5
    /\ saveCall.session_id \notin DOMAIN db.threads \cup DOMAIN db.chat_sessions
    /\ db.embedding_jobs = <<>>

\* the step enqueues the pair: a save that ran its INSERT OR IGNORE for it, or
\* the insert of queue_job
EnqueuesPair(session_id, hash) ==
    \/ /\ SaveStep /\ saveCall'.failed_at = 0 /\ saveCall'.enqueue # "none"
       /\ saveCall'.session_id = session_id
       /\ SessionHash(db', session_id) = hash
    \/ \E t \in Running("queue_job") :
          /\ tasks' = Finish(tasks, t)
          /\ t.session_id = session_id /\ t.content_hash = hash

\* C4: embedding_jobs never holds two rows for one (session_id, content_hash),
\* and a step that enqueues a pair that already has a row (a save, the insert
\* of queue_job) leaves the pair with its row, status and retry_count as they
\* were.
C4_JobDedup ==
    /\ [](\A i, j \in 1..Len(db.embedding_jobs) :
            (/\ db.embedding_jobs[i].session_id = db.embedding_jobs[j].session_id
             /\ db.embedding_jobs[i].content_hash = db.embedding_jobs[j].content_hash)
            => i = j)
    /\ [][\A session_id \in SessionIds, hash \in {p[2] : p \in Sha256Hex} :
            (/\ EnqueuesPair(session_id, hash)
             /\ HasJob(db.embedding_jobs, JobId(session_id, hash)))
            => /\ HasJob(db'.embedding_jobs, JobId(session_id, hash))
               /\ LET old == db.embedding_jobs[
                                JobIndex(db.embedding_jobs, JobId(session_id, hash))]
                      new == db'.embedding_jobs[
                                JobIndex(db'.embedding_jobs, JobId(session_id, hash))]
                  IN new.status = old.status /\ new.retry_count = old.retry_count]_vars

InHand(job_id) ==
    /\ worker.pc \in {"load", "generate", "store"}
    /\ Head(worker.batch).job_id = job_id

\* C6: with no crash, a job that never succeeds is attempted at most
\* MAX_RETRIES times, and once its row is failed it is not attempted again.
C6_AtMostMaxRetriesAttempts ==
    \A i \in 1..Len(db.embedding_jobs) :
        LET job == db.embedding_jobs[i]
        IN job.job_id \notin hist.stored =>
              /\ job.job_id \in DOMAIN hist.attempts =>
                    hist.attempts[job.job_id] <= MAX_RETRIES
              /\ job.status = "failed" => ~InHand(job.job_id)

IsCompletion(t) ==
    \/ t.kind = "update_job_status" /\ t.status = "completed"
    \/ t.kind = "mark_embedding_complete"

StoredFor(session_id) ==
    \E text \in {p[1] : p \in Sha256Hex} :
        JobId(session_id, content_hash(text)) \in hist.stored

StoreSucceeds ==
    worker.pc = "store" /\ worker'.pc \in {"fetch", "next"} /\ used' = used

\* C7: a completed row, a task that will write completed, a task that will
\* clear pending_embedding and a cleared pending_embedding exist only for a job
\* (a session) whose store_session_embedding has succeeded with the job's
\* session id and content hash; a step that is no successful store spawns no
\* task that writes completed or clears pending_embedding.  (Where foreign
\* keys are not enforced the stored job's row and the session's embedding
\* row are still there.)
C7_CompletedOnlyAfterStore ==
    /\ [](/\ \A i \in 1..Len(db.embedding_jobs) :
               db.embedding_jobs[i].status = "completed"
                   => db.embedding_jobs[i].job_id \in hist.stored
          /\ \A t \in BagToSet(tasks) :
               /\ (t.kind = "update_job_status" /\ t.status = "completed")
                      => t.job_id \in hist.stored
               /\ t.kind = "mark_embedding_complete" => StoredFor(t.session_id)
          /\ \A id \in DOMAIN db.chat_sessions :
               db.chat_sessions[id].pending_embedding = 0 => StoredFor(id)
          /\ ~db.foreign_keys =>
               \A j \in hist.stored :
                  /\ j \in JobIds(db.embedding_jobs)
                  /\ LET job == db.embedding_jobs[JobIndex(db.embedding_jobs, j)]
                     IN job.session_id \in DOMAIN db.session_embeddings)
    /\ [][~StoreSucceeds =>
            \A t \in BagToSet(tasks') :
                IsCompletion(t) => CopiesIn(t, tasks') <= CopiesIn(t, tasks)]_vars

\* a job completed on a later attempt, after an attempt of it had failed
C7_Witness ==
    \E i \in 1..Len(db.embedding_jobs) :
        /\ db.embedding_jobs[i].status = "completed"
        /\ db.embedding_jobs[i].retry_count > 0
        /\ db.chat_sessions[db.embedding_jobs[i].session_id].pending_embedding = 0

\* the worker has run until no job is pending or processing
WorkerIdle ==
    /\ worker.pc = "fetch" /\ worker.fetched
    /\ tasks = EmptyBag
    /\ \A i \in 1..Len(db.embedding_jobs) :
          db.embedding_jobs[i].status \notin {"pending", "processing"}

\* C8: once the worker has run until no job is pending or processing (no
\* generator failure, no crash), every saved thread with non-empty session text
\* has a session_embeddings row whose content_hash is the hash of the latest
\* saved text, and pending_embedding = 0.
C8_EmbeddingFollowsLatestSave ==
    WorkerIdle =>
        \A id \in DOMAIN db.threads :
            extract_session_text(db.threads[id].messages) # <<>> =>
                /\ StoredHash(db, id) = SessionHash(db, id)
                /\ db.chat_sessions[id].pending_embedding = 0

\* what C9 says of a save that returned Ok, with `covered` the saves it is
\* stated for
SaveDecision(covered) ==
    LET id == saveCall'.session_id
        hash == SessionHash(db', id)
        noNeed == /\ id \in DOMAIN db.chat_sessions
                  /\ db.chat_sessions[id].pending_embedding = 0
                  /\ StoredHash(db, id) = hash
    IN (SaveStep /\ saveCall'.failed_at = 0 /\ covered) =>
          IF noNeed
          THEN /\ db'.embedding_jobs = db.embedding_jobs
               /\ db'.chat_sessions[id].pending_embedding = 0
          ELSE /\ db'.chat_sessions[id].pending_embedding = 1
               /\ HasJob(db'.embedding_jobs, JobId(id, hash))

\* C9: every save that returns Ok decides that no embedding is needed exactly
\* when pending_embedding = 0 and the stored hash equals the hash of the saved
\* text (then it inserts no job and leaves pending_embedding = 0), and in every
\* other case sets pending_embedding = 1 and enqueues.
C9_SaveDecision == [][SaveDecision(TRUE)]_vars

JobsOfAgent(a) ==
    {i \in 1..Len(db.embedding_jobs) :
        db.chat_sessions[db.embedding_jobs[i].session_id].agent_id = a}

\* C10: after the jobs have each been attempted once and completed and every
\* detached task has finished, session_count of an agent equals the number
\* of that agent's jobs.
C10_SessionCountIsJobCount ==
    (/\ tasks = EmptyBag
     /\ worker.pc = "fetch"
     /\ \A i \in 1..Len(db.embedding_jobs) :
           /\ db.embedding_jobs[i].status = "completed"
           /\ hist.attempts[db.embedding_jobs[i].job_id] = 1)
    => \A id \in DOMAIN db.chat_sessions :
          LET a == db.chat_sessions[id].agent_id
          IN JobsOfAgent(a) # {} =>
                /\ a \in DOMAIN db.agent_global_embeddings
                /\ db.agent_global_embeddings[a].session_count
                       = Cardinality(JobsOfAgent(a))

\* delete_thread(id) returns in this step
Deleted(id) == id \in DOMAIN db.threads /\ id \notin DOMAIN db'.threads

\* save_thread(id, ...) of a thread that is stored returns Ok in this step
Resaved(id) ==
    /\ SaveStep /\ saveCall'.session_id = id /\ saveCall'.failed_at = 0
    /\ id \in DOMAIN db.threads /\ id \in DOMAIN db.chat_sessions

\* C16: a chat_sessions row exists exactly for the ids that have a threads
\* row; when delete_thread(id) has returned no chat_sessions, session_embeddings
\* or embedding_jobs row of that session is left; a save of a stored thread
\* keeps the chat_sessions row it found (the row is not deleted and not
\* inserted anew).
C16_SessionRowIffThreadRow ==
    /\ [](DOMAIN db.chat_sessions = DOMAIN db.threads)
    /\ [][\A id \in SessionIds :
            /\ Deleted(id) =>
                  /\ id \notin DOMAIN db'.chat_sessions
                  /\ id \notin DOMAIN db'.session_embeddings
                  /\ \A i \in 1..Len(db'.embedding_jobs) :
                        db'.embedding_jobs[i].session_id # id
            /\ Resaved(id) =>
                  /\ id \in DOMAIN db'.chat_sessions
                  /\ db'.chat_sessions[id].created_at
                        = db.chat_sessions[id].created_at]_vars

OpenStep == store'.opens = store.opens + 1

Migrated(d) ==
    /\ "chat_sessions" \in DOMAIN d.schema_versions
    /\ d.schema_versions["chat_sessions"].version = 1

\* C17: while the database is open every threads row has a chat_sessions row
\* and schema_versions holds version 1 for chat_sessions.  A call of
\* ThreadsDatabase::new that returns an error leaves the database as it was;
\* one that returns Ok adds rows only for threads that had none, each with
\* agent native/builtin, message_count 0 and pending_embedding 1, and the
\* version row; with the version row present it changes nothing.
C17_MigrationBackfills ==
    /\ [](store.open =>
            /\ DOMAIN db.threads \subseteq DOMAIN db.chat_sessions
            /\ Migrated(db))
    /\ [][OpenStep =>
            /\ store'.result = "Err" => db' = db
            /\ store'.result = "Ok" =>
                  /\ Migrated(db')
                  /\ DOMAIN db'.chat_sessions = DOMAIN db.chat_sessions \cup DOMAIN db.threads
                  /\ \A id \in DOMAIN db.chat_sessions :
                        db'.chat_sessions[id] = db.chat_sessions[id]
                  /\ \A id \in DOMAIN db'.chat_sessions \ DOMAIN db.chat_sessions :
                        /\ db'.chat_sessions[id].agent_id = "native"
                        /\ db'.chat_sessions[id].agent_type = "builtin"
                        /\ db'.chat_sessions[id].message_count = 0
                        /\ db'.chat_sessions[id].pending_embedding = 1
                  /\ db'.threads = db.threads
            /\ Migrated(db) => db' = db]_vars

\* the database of two legacy threads is open: the first call of new failed
\* inside the savepoint, the second backfilled both sessions, the process ended
\* after a save and the third call found the version row
C17_Witness ==
    /\ store.open /\ store.opens = 3 /\ store.faults = 1
    /\ used.saves = 1
    /\ LegacyIds \subseteq DOMAIN db.chat_sessions
    /\ db.chat_sessions["s2"].message_count = 0
    /\ db.chat_sessions["s1"].message_count > 0

----------------------------------------------------------------------------
(* Web search *)

\* the text of the error contains 429, 500, 502, 503, 504 or timeout
HasRetryableMarker(err) ==
    \E marker \in {<<"4", "2", "9">>, <<"5", "0", "0">>, <<"5", "0", "2">>,
                   <<"5", "0", "3">>, <<"5", "0", "4">>,
                   <<"t", "i", "m", "e", "o", "u", "t">>} :
        \E i \in 1..Len(err) :
            /\ i + Len(marker) - 1 <= Len(err)
            /\ \A j \in 1..Len(marker) : err[i + j - 1] = marker[j]

FailsRetryably(result) == ~result.ok /\ HasRetryableMarker(result.err)

\* `out` is `response` as the tool hands it on: its first max_results results,
\* each with its text or, for a text over snippet_length, a prefix of it and "..."
IsTrimmed(out, response) ==
    /\ Len(out) = (IF Len(response) > toolCall.max_results
                   THEN toolCall.max_results ELSE Len(response))
    /\ \A i \in 1..Len(out) :
          /\ out[i].url = response[i].url
          /\ \/ out[i].text = response[i].text
             \/ /\ Len(response[i].text) > toolCall.snippet_length
                /\ \E n \in 0..toolCall.snippet_length :
                      out[i].text = SubSeq(response[i].text, 1, n) \o <<".", ".", ".">>

C12_NoLaterSearchInvoked ==
    \A k \in 1..Len(toolCall.results) :
        (~toolCall.results[k].ok /\ ~HasRetryableMarker(toolCall.results[k].err)) =>
            /\ toolCall.pc = "done"
            /\ toolCall.output = ErrResult(toolCall.results[k].err)
            /\ Len(toolCall.results) = k
            /\ toolCall.invoked = SubSeq(Ids(toolCall.candidates), 1, k)

ProvidersNamed(title) == SelectSeq(title, LAMBDA piece : piece \in ProviderIds)

\* C13: when every candidate failed with a retryable error the output is the
\* error of the last candidate, and a call that failed has emitted, as its last
\* update, a failed title that lists the providers tried in the order tried
C13_FailedTitleListsTried ==
    (toolCall.pc = "done" /\ ~toolCall.output.ok) =>
        /\ toolCall.updates # <<>>
        /\ toolCall.updates[Len(toolCall.updates)].title[1] = "Web Search Failed (tried: "
        /\ ProvidersNamed(toolCall.updates[Len(toolCall.updates)].title) = toolCall.tried
        /\ toolCall.tried = SubSeq(Ids(toolCall.candidates), 1, Len(toolCall.results))
        /\ (/\ Len(toolCall.results) = Len(toolCall.candidates)
            /\ \A j \in 1..Len(toolCall.results) : FailsRetryably(toolCall.results[j]))
           => toolCall.output.err = toolCall.results[Len(toolCall.results)].err

\* the first position of id in the sequence of ids, 0 when it is not there
FirstIndex(ids, id) ==
    IF \E i \in 1..Len(ids) : ids[i] = id
    THEN CHOOSE i \in 1..Len(ids) : ids[i] = id /\ \A j \in 1..(i - 1) : ids[j] # id
    ELSE 0

\* the place of a registered provider in the candidate list
CandidateRank(id) ==
    IF id = toolCall.preferred THEN 0
    ELSE IF FirstIndex(registry.provider_priority, id) # 0
         THEN FirstIndex(registry.provider_priority, id)
    ELSE IF registry.active_provider.id = id
         THEN Len(registry.provider_priority) + 1
    ELSE Len(registry.provider_priority) + 2

WithoutId(providers, id) == SelectSeq(providers, LAMBDA p : p.id # id)

\* C14: the candidate list of a call holds the id of every registered provider
\* once and no other id, in the order preferred, priority list, active
\* provider, others; the others keep the order they had before the preferred
\* provider was moved
C14_CandidateOrder ==
    toolCall.pc # "idle" =>
        LET ids == Ids(toolCall.candidates)
        IN  /\ {ids[i] : i \in 1..Len(ids)} = DOMAIN registry.providers
            /\ \A i, j \in 1..Len(ids) : ids[i] = ids[j] => i = j
            /\ \A i, j \in 1..Len(ids) :
                  i < j =>
                     \/ CandidateRank(ids[i]) < CandidateRank(ids[j])
                     \/ /\ CandidateRank(ids[i]) = CandidateRank(ids[j])
                        /\ CandidateRank(ids[i]) = Len(registry.provider_priority) + 2
            /\ WithoutId(toolCall.candidates, toolCall.preferred)
                  = WithoutId(toolCall.ordered, toolCall.preferred)

C14_Witness ==
    /\ toolCall.pc # "idle"
    /\ Len(toolCall.candidates) = 3
    /\ toolCall.candidates[1].id = toolCall.preferred
    /\ toolCall.ordered[3].id = toolCall.preferred
    /\ Len(registry.provider_priority) = 2
    /\ registry.provider_priority[1] = registry.provider_priority[2]

----------------------------------------------------------------------------
(* Agent registry *)

\* the directory of the built-in agent exists and its checksum is not the one
\* the manifest records
DiffersFromManifest(r, agent_id) ==
    /\ agent_id \in DOMAIN r.manifest_file.agents
    /\ r.manifest_file.agents[agent_id].source = "builtin"
    /\ r.disk[agent_id] # NoTree
    /\ compute_directory_checksum(r.disk[agent_id])
          # r.manifest_file.agents[agent_id].checksum

InitializeStep == agents'.runs = agents.runs + 1

\* C15: a run of initialize leaves the directory of every built-in agent whose
\* tree differs from the manifest checksum as it is, whatever the embedded
\* source, and leaves the checksum of its manifest entry as it is; so the same
\* holds at the next run
C15_EditedAgentIsKept ==
    [][InitializeStep =>
          \A agent_id \in AgentIds :
              DiffersFromManifest(agents, agent_id) =>
                  /\ agents'.disk[agent_id] = agents.disk[agent_id]
                  /\ agents'.manifest_file.agents[agent_id].checksum
                        = agents.manifest_file.agents[agent_id].checksum
                  /\ DiffersFromManifest(agents', agent_id)]_vars

C15_Witness ==
    /\ agents.runs = MaxInitializeRuns
    /\ "julia" \in agents.skipped
    /\ DiffersFromManifest(agents, "julia")
    /\ agents.manifest_file.agents["julia"].user_modified
    /\ agents.manifest_file.agents["julia"].checksum
          # embedded_agent_checksum(agents.assets["julia"])

----------------------------------------------------------------------------
(* Vector store *)

Searched == probe.op = "search_similar_sessions"

\* the position in the table of the row of the session
RowOf(session_id) ==
    CHOOSE i \in 1..Len(probe.table) : probe.table[i].session_id = session_id

TagMatches(row, query_embedding) ==
    /\ row.embedding_model = ModelTag(query_embedding.model).name
    /\ row.embedding_model_version = ModelTag(query_embedding.model).version
    /\ row.embedding_dimension = query_embedding.dimension

\* the score of the row for the query, if it has one
ScoreOf(row, query_embedding) ==
    LET candidate == deserialize_embedding(row.embedding, query_embedding.model)
        cosine == cosine_similarity(query_embedding.vector, candidate.vector)
    IN [ok |-> candidate.ok,
        value |-> IF cosine.ok THEN cosine.value ELSE F32(0)]

\* the rows of the query's model whose score is at least the threshold
Qualifying ==
    {i \in 1..Len(probe.table) :
        /\ TagMatches(probe.table[i], probe.input.query_embedding)
        /\ ScoreOf(probe.table[i], probe.input.query_embedding).ok
        /\ FGe(ScoreOf(probe.table[i], probe.input.query_embedding).value,
               probe.input.threshold)}

\* row i comes before row j: a higher score, or the same score and inserted
\* earlier
RanksBefore(i, j) ==
    LET si == ScoreOf(probe.table[i], probe.input.query_embedding).value
        sj == ScoreOf(probe.table[j], probe.input.query_embedding).value
    IN si.v > sj.v \/ (si.v = sj.v /\ i < j)

\* C18: search_similar_sessions(q, L, t) returns at most L rows, each with
\* score >= t, in non-increasing order of score, only of sessions stored with
\* the query's model name, version and dimension; the rows are the L
\* highest-scoring qualifying sessions (all of them when there are fewer),
\* sessions of equal score in insertion order.
C18_TopSimilarSessions ==
    Searched =>
        LET out == probe.output
            lim == probe.input.limit
            returned == {RowOf(out[k].session_id) : k \in 1..Len(out)}
        IN /\ UsizeAtLeast(lim, Len(out))
           /\ \A k \in 1..Len(out) :
                /\ FGe(out[k].similarity, probe.input.threshold)
                /\ \E i \in 1..Len(probe.table) :
                      /\ probe.table[i].session_id = out[k].session_id
                      /\ TagMatches(probe.table[i], probe.input.query_embedding)
           /\ \A k \in 1..(Len(out) - 1) : FGe(out[k].similarity, out[k + 1].similarity)
           /\ returned \subseteq Qualifying
           /\ Cardinality(returned) = Len(out)
           /\ \A k \in 1..(Len(out) - 1) :
                RanksBefore(RowOf(out[k].session_id), RowOf(out[k + 1].session_id))
           /\ \A i \in Qualifying \ returned :
                /\ ~UsizeAtLeast(lim, Len(out) + 1)
                /\ \A j \in returned : RanksBefore(j, i)

----------------------------------------------------------------------------
(* DbThread::from_json *)

\* the version is "0.4.0" or a string that starts with "0.3."
CurrentOrPrevious(version) ==
    /\ version.kind = "string"
    /\ \/ version.text = <<"0", ".", "4", ".", "0">>
       \/ /\ Len(version.text) >= 4
          /\ \A i \in 1..4 : version.text[i] = <<"0", ".", "3", ".">>[i]

NotSystem(messages) == SelectSeq(messages, LAMBDA msg : msg.role # "System")

\* C19: a JSON payload whose top-level version is "0.4.0" or starts with
\* "0.3." is deserialized directly, a missing agent_id becomes "native" and a
\* missing agent_type builtin while values that are present are kept; every
\* other JSON payload is handed to the legacy upgrade, whose result has
\* agent_id "native", agent_type builtin and one message for each legacy
\* message that is no System message, in order.
C19_FromJsonByVersion ==
    (probe.op = "from_json" /\ probe.input.is_json) =>
        LET payload == probe.input
            out == probe.output
        IN IF CurrentOrPrevious(payload.version)
           THEN /\ out.path = "direct"
                /\ out.ok = payload.thread.ok
                /\ out.ok =>
                     /\ out.thread.messages = payload.thread.messages
                     /\ out.thread.agent_id =
                          (IF payload.agent_id = None THEN "native" ELSE payload.agent_id)
                     /\ out.thread.agent_type =
                          (IF payload.agent_type = None THEN "Builtin"
                           ELSE payload.agent_type)
           ELSE /\ out.path = "legacy"
                /\ out.ok = payload.legacy.ok
                /\ out.ok =>
                     /\ out.thread.agent_id = "native"
                     /\ out.thread.agent_type = "Builtin"
                     /\ Len(out.thread.messages) = Len(NotSystem(payload.legacy.messages))
                     /\ \A i \in 1..Len(out.thread.messages) :
                          out.thread.messages[i].kind =
                             (IF NotSystem(payload.legacy.messages)[i].role = "User"
                              THEN "User" ELSE "Agent")

\* a payload of version 0.3.12 that names the agent julia and no agent_type
\* was deserialized directly
C19_Witness ==
    /\ probe.op = "from_json" /\ probe.output.ok /\ probe.output.path = "direct"
    /\ probe.input.version = JsonString(<<"0", ".", "3", ".", "1", "2">>)
    /\ probe.input.agent_type = None
    /\ probe.output.thread.agent_id = "julia"

----------------------------------------------------------------------------
(* normalize_text_for_embedding *)

Digit(c) == c \in {"0", "1", "2", "3", "4", "5", "6", "7", "8", "9"}

\* 4 digits '-' 2 digits '-' 2 digits, one whitespace or 'T',
\* 2 digits ':' 2 digits ':' 2 digits
IsTimestamp(s) ==
    /\ Len(s) = 19
    /\ \A k \in {1, 2, 3, 4, 6, 7, 9, 10, 12, 13, 15, 16, 18, 19} : Digit(s[k])
    /\ s[5] = "-" /\ s[8] = "-"
    /\ s[11] \in {" ", "\n", "\t", "\r", "T"}
    /\ s[14] = ":" /\ s[17] = ":"

ContainsTimestamp(t) ==
    \E i \in 1..Len(t) : i + 18 <= Len(t) /\ IsTimestamp(SubSeq(t, i, i + 18))

\* C20: normalizing the output of normalize_text_for_embedding gives the
\* same text again, and the output holds no substring that matches the
\* timestamp pattern.
C20_NormalizeIdempotent ==
    /\ probe.op \in {"normalized", "renormalized"} => ~ContainsTimestamp(probe.output)
    /\ probe.op = "renormalized" => probe.again = probe.output

----------------------------------------------------------------------------
(* Timestamps in message texts *)

\* the texts are equal but for one timestamp at the same place
OneTimestampApart(a, b) ==
    /\ Len(a) = Len(b)
    /\ \E i \in 1..Len(a) :
          /\ i + 18 <= Len(a)
          /\ IsTimestamp(SubSeq(a, i, i + 18)) /\ IsTimestamp(SubSeq(b, i, i + 18))
          /\ \A k \in 1..Len(a) : (k < i \/ k > i + 18) => a[k] = b[k]

\* the threads have the same messages but for timestamps in their texts
DifferOnlyByTimestamps(t, u) ==
    /\ t # u
    /\ Len(t.messages) = Len(u.messages)
    /\ \A m \in 1..Len(t.messages) :
          /\ t.messages[m].kind = u.messages[m].kind
          /\ Len(t.messages[m].content) = Len(u.messages[m].content)
          /\ \A p \in 1..Len(t.messages[m].content) :
                LET a == t.messages[m].content[p]
                    b == u.messages[m].content[p]
                IN /\ a.type = b.type
                   /\ a.text = b.text \/ OneTimestampApart(a.text, b.text)

\* a save that returned Ok replaced the thread of the session by one that
\* differs from it only by timestamps
ResavedWithOtherTimestamps(id) ==
    /\ SaveStep /\ saveCall'.failed_at = 0 /\ saveCall'.session_id = id
    /\ id \in DOMAIN db.threads
    /\ DifferOnlyByTimestamps(db.threads[id], db'.threads[id])

\* C21: two threads that differ only by timestamps in their message texts have
\* the same session text and the same content_hash, and a save of the second
\* over the first leaves embedding_jobs without a job it did not hold before.
C21_TimestampsDoNotEnqueue ==
    [][\A id \in SessionIds :
          ResavedWithOtherTimestamps(id) =>
             /\ extract_session_text(db'.threads[id].messages)
                   = extract_session_text(db.threads[id].messages)
             /\ SessionHash(db', id) = SessionHash(db, id)
             /\ JobIds(db'.embedding_jobs) \subseteq JobIds(db.embedding_jobs)]_vars

----------------------------------------------------------------------------
(* Providers *)

\* position k of the text lies in a tag: from a '<' up to the next '>'
InTag(text, k) ==
    \E i \in 1..k : text[i] = "<" /\ \A j \in i..(k - 1) : text[j] # ">"

\* the text outside tags, in order
OutsideTags(text) ==
    LET kept == {k \in 1..Len(text) : ~InTag(text, k) /\ text[k] # ">"}
        Nth(n) == CHOOSE k \in kept : Cardinality({j \in kept : j < k}) = n - 1
    IN  [n \in 1..Cardinality(kept) |-> Nth(n)]

\* the text of the result as the provider received it
WireText ==
    IF probe.provider = "tavily"
    THEN (IF Len(probe.input.content) = 1 THEN probe.input.content[1]
          ELSE IF Len(probe.input.snippet) = 1 THEN probe.input.snippet[1] ELSE <<>>)
    ELSE Join(probe.input.text
              \o (IF Len(probe.input.highlights) = 1 THEN probe.input.highlights[1]
                  ELSE <<>>),
              <<" ">>)

\* what C22 says of the snippet a provider returns
HtmlRemoved ==
    probe.op = "result" =>
        /\ \A k \in 1..Len(probe.output) : probe.output[k] \notin {"<", ">"}
        /\ LET outside == [n \in 1..Len(OutsideTags(WireText)) |->
                              WireText[OutsideTags(WireText)[n]]]
           IN probe.output = truncate_text(outside, probe.snippet_length)

\* C22: the snippet a provider (Tavily or Exa) returns is the text of the
\* result with every tag, from a '<' up to the next '>', dropped and the text
\* outside tags kept in order, cut to the snippet length; it holds no '<' and
\* no '>'.
C22_SnippetsHaveNoHtml == HtmlRemoved

----------------------------------------------------------------------------
(* Agent registry: stateless mode *)

\* C23: with the stateless flag set every call of new, initialize,
\* load_agent_metadata, get_agent_path and load_system_prompt leaves the
\* directories, their files and index.json as they are and returns Ok(()) or
\* None, and save_manifest leaves index.json as it is, whatever the data
\* directory and the embedded assets hold.
C23_StatelessTouchesNothing ==
    [][agents.stateless =>
          /\ agents'.disk = agents.disk /\ agents'.custom = agents.custom
          /\ agents'.dirs = agents.dirs
          /\ agents'.manifest_file = agents.manifest_file
          /\ agents'.call.result = ResultOk(Nothing)
          /\ \A manifest \in FoundManifests \cup {NewManifest} :
                save_manifest(agents.stateless, agents.manifest_file, manifest)
                   = agents.manifest_file]_vars

\* a stateless process whose data directory holds a system prompt for julia
\* has run initialize and was then asked for that prompt
C23_Witness ==
    /\ agents.stateless /\ agents.runs > 0
    /\ agents.call.op = "load_system_prompt" /\ agents.call.agent_id = "julia"
    /\ HasFile(agents.disk["julia"], NamePrompt)
    /\ HasFile(agents.assets["julia"], NamePrompt)
    /\ ~agents.manifest_file.exists

----------------------------------------------------------------------------
(* The global embedding of an agent *)

\* the error allowed after n folds, far above the rounding of the arithmetic
FoldTolerance(n) == 50 * n

Near(a, b, tolerance) ==
    /\ Len(a) = Len(b)
    /\ \A i \in 1..Len(a) : a[i] - b[i] <= tolerance /\ b[i] - a[i] <= tolerance

\* C24: after the session embeddings v1..vN were folded one after the other
\* into the global embedding of an agent, the stored vector is
\* normalize(mean(v1..vN)) up to the rounding error of the arithmetic.
C24_FoldIsNormalizedMean ==
    (probe.op = "fold" /\ probe.input # <<>>) =>
        Near(probe.output[1].vector, aggregate_embeddings_mean(probe.input),
             FoldTolerance(Len(probe.input)))

----------------------------------------------------------------------------
(* save_thread_sync: the chat_sessions row of a session that has one *)

\* C25: a save that returns Ok for a session that has a chat_sessions row
\* leaves created_at of the row as it is and does not change
\* pending_embedding from 1 to 0; pending_embedding stays as it was unless
\* the save decides that an embedding is needed, and then it is 1.
C25_SaveKeepsSessionRow ==
    [][\A id \in SessionIds :
          (/\ SaveStep /\ saveCall'.failed_at = 0 /\ saveCall'.session_id = id
           /\ id \in DOMAIN db.chat_sessions)
          => LET old == db.chat_sessions[id]
                 new == db'.chat_sessions[id]
             IN /\ new.created_at = old.created_at
                /\ ~(old.pending_embedding = 1 /\ new.pending_embedding = 0)
                /\ IF saveCall'.enqueue # "none"
                   THEN new.pending_embedding = 1
                   ELSE new.pending_embedding = old.pending_embedding]_vars

----------------------------------------------------------------------------
(* worker_loop: progress *)

StatusOf(job_id) ==
    IF HasJob(db.embedding_jobs, job_id)
    THEN db.embedding_jobs[JobIndex(db.embedding_jobs, job_id)].status
    ELSE None

\* C26: the worker loop, once started, never stops, and every job that is
\* pending at some point is completed or failed at some later point.
C26_PendingJobsFinish ==
    /\ [][worker.pc # "down" => worker'.pc # "down"]_vars
    /\ \A job_id \in {JobId(id, p[2]) : id \in SessionIds, p \in Sha256Hex} :
          (StatusOf(job_id) = "pending")
             ~> (StatusOf(job_id) \in {"completed", "failed"})

----------------------------------------------------------------------------
(* Sessions waiting for an embedding *)

Scheduled(d, id) ==
    \E i \in 1..Len(d.embedding_jobs) :
        /\ d.embedding_jobs[i].session_id = id
        /\ d.embedding_jobs[i].content_hash = SessionHash(d, id)
        /\ d.embedding_jobs[i].status \in {"pending", "processing"}

\* C27: whenever no job attempt is half-done, every chat_sessions row with
\* pending_embedding = 1 whose saved thread has non-empty session text has a
\* job for that session and the hash of that text in status pending or
\* processing.
C27_PendingSessionIsScheduled ==
    Quiescent =>
        \A id \in DOMAIN db.chat_sessions \cap DOMAIN db.threads :
            (/\ db.chat_sessions[id].pending_embedding = 1
             /\ extract_session_text(db.threads[id].messages) # <<>>)
                => Scheduled(db, id)

----------------------------------------------------------------------------
(* process_job *)

\* the loop body takes the Err arm for the job: a retry or the failed status is
\* spawned in this step
AttemptFails(job) ==
    \E t \in BagToSet(tasks') :
        /\ CopiesIn(t, tasks') > CopiesIn(t, tasks)
        /\ t.job_id = job.job_id
        /\ \/ t.kind = "update_job_retry"
           \/ t.kind = "update_job_status" /\ t.status = "failed"

\* the thread of the job is there, has text, and the text has the job's hash
LoadedTextMatches(d, job) ==
    /\ job.session_id \in DOMAIN d.threads
    /\ extract_session_text(d.threads[job.session_id].messages) # <<>>
    /\ SessionHash(d, job.session_id) = job.content_hash

WrittenRows ==
    {id \in DOMAIN db'.session_embeddings :
        \/ id \notin DOMAIN db.session_embeddings
        \/ db'.session_embeddings[id] # db.session_embeddings[id]}

\* C28: an attempt goes on to the generator only when the thread loaded in it
\* is there and has non-empty text whose hash is the job's content_hash, and
\* otherwise fails and writes no embedding; the job in hand stays the same up
\* to the store, and every session_embeddings row that is written is written
\* by the store of the attempt, for the job's session and with the job's
\* content_hash.
C28_EmbeddingMatchesLoadedText ==
    [][/\ (worker.pc = "load" /\ worker' # worker) =>
             IF LoadedTextMatches(db, Head(worker.batch))
             THEN worker'.pc = "generate" /\ worker'.batch = worker.batch
             ELSE /\ AttemptFails(Head(worker.batch))
                  /\ worker'.pc \in {"fetch", "next"}
                  /\ db'.session_embeddings = db.session_embeddings
       /\ (worker.pc = "generate" /\ worker'.pc = "store") =>
             worker'.batch = worker.batch
       /\ \A id \in WrittenRows :
             /\ worker.pc = "store"
             /\ id = Head(worker.batch).session_id
             /\ db'.session_embeddings[id].content_hash
                   = Head(worker.batch).content_hash]_vars

\* a job failed an attempt on a hash mismatch, and the embedding of the text
\* saved last was stored for its session
C28_Witness ==
    \E i \in 1..Len(db.embedding_jobs) :
        LET job == db.embedding_jobs[i]
        IN /\ job.error_message = "Content hash mismatch"
           /\ job.session_id \in DOMAIN db.threads \cap DOMAIN db.session_embeddings
           /\ db.session_embeddings[job.session_id].content_hash
                 = SessionHash(db, job.session_id)
           /\ job.content_hash # SessionHash(db, job.session_id)

----------------------------------------------------------------------------
(* worker_loop: retry_count *)

\* C29: a job that ended failed has failed MAX_RETRIES attempts, each of which
\* added one to its persisted retry_count: a failed job has
\* retry_count = MAX_RETRIES.
C29_FailedJobHasMaxRetries ==
    \A i \in 1..Len(db.embedding_jobs) :
        db.embedding_jobs[i].status = "failed"
            => db.embedding_jobs[i].retry_count = MAX_RETRIES

----------------------------------------------------------------------------
(* fetch_pending_jobs *)

\* the place of a job id among the job ids in ascending order
IdRank(job_id) ==
    CHOOSE k \in 1..Len(QueuedSessions) :
        JobId(QueuedSessions[k], content_hash(<<"H", "i">>)) = job_id

PendingRows(jobs) == {i \in 1..Len(jobs) : jobs[i].status = "pending"}

\* C30: a fetch returns at most BATCH_SIZE jobs, all of them pending rows and
\* none created later than a pending row it leaves behind, in non-decreasing
\* created_at order, jobs of equal created_at in ascending job_id order.
C30_FetchOrder ==
    (probe.op = "fetch" /\ probe.output # Nothing) =>
        LET jobs == probe.input
            out == probe.output[1]
            left == {i \in PendingRows(jobs) :
                        \A k \in 1..Len(out) : out[k].job_id # jobs[i].job_id}
        IN /\ Len(out) <= BATCH_SIZE
           /\ \A k \in 1..Len(out) :
                 \E i \in PendingRows(jobs) : jobs[i] = out[k]
           /\ left # {} => Len(out) = BATCH_SIZE
           /\ \A i \in left, k \in 1..Len(out) : out[k].created_at <= jobs[i].created_at
           /\ \A k, l \in 1..Len(out) :
                 k < l =>
                    /\ out[k].created_at <= out[l].created_at
                    /\ out[k].created_at = out[l].created_at
                          => IdRank(out[k].job_id) < IdRank(out[l].job_id)

----------------------------------------------------------------------------
(* delete_thread and the worker *)

\* C31: once the worker has run until no job is pending or processing, a
\* session whose thread was deleted (and not saved again) has no
\* session_embeddings row, so search_similar_sessions, which reads that table
\* only, cannot return it.
C31_DeletedSessionHasNoEmbedding ==
    WorkerIdle =>
        \A id \in SessionIds :
            id \notin DOMAIN db.threads => id \notin DOMAIN db.session_embeddings

----------------------------------------------------------------------------
(* Web search: one attempt at a time *)

\* C32: the search of candidate k + 1 has been started only when the search
\* of candidate k has finished with a retryable error, so the searches
\* started are at most one more than the searches finished.
C32_SequentialAttempts ==
    \A k \in 2..Len(toolCall.invoked) :
        /\ k - 1 <= Len(toolCall.results)
        /\ FailsRetryably(toolCall.results[k - 1])

----------------------------------------------------------------------------
(* Web search: the title of a successful call *)

\* C33: a call that returned Ok has emitted a title update that names the
\* provider that served it and the number of results returned, and every
\* update after it names that provider in its title too.
C33_TitleNamesProvider ==
    (toolCall.pc = "done" /\ toolCall.output.ok) =>
        LET served == toolCall.candidates[Len(toolCall.results)].id
            count == Len(toolCall.output.response)
        IN \E i \in 1..Len(toolCall.updates) :
              /\ toolCall.updates[i].title = SearchedUsingTitle(served, count)
              /\ \A j \in (i + 1)..Len(toolCall.updates) :
                    ProvidersNamed(toolCall.updates[j].title) = <<served>>

----------------------------------------------------------------------------
(* Agent registry: the checksum of a seeded agent *)

\* C35: after an agent was seeded from its embedded tree, the checksum of its
\* directory is the embedded checksum the manifest records, and the agent is
\* not marked user_modified.
C35_SeededChecksumMatches ==
    (probe.op = "seed" /\ probe.output # Nothing) =>
        LET st == probe.output[1]
            entry == st.manifest.agents[probe.agent_id]
        IN /\ entry.checksum = embedded_agent_checksum(probe.input)
           /\ compute_directory_checksum(st.disk[probe.agent_id]) = entry.checksum
           /\ ~entry.user_modified

----------------------------------------------------------------------------
(* Agent registry: agents the user left alone *)

\* the directory of the agent is missing, or it is as the build wrote it whose
\* checksum the manifest records
NotModifiedByUser(r, agent_id) ==
    \/ r.disk[agent_id] = NoTree
    \/ \E assets \in UpgradeBuilds :
          /\ r.disk[agent_id] = copy_agent_from_assets(agent_id, assets[agent_id])
          /\ agent_id \in DOMAIN r.manifest_file.agents =>
                r.manifest_file.agents[agent_id].checksum
                   = embedded_agent_checksum(assets[agent_id])

\* C34: a run of initialize leaves every built-in agent whose directory the
\* user did not modify with the embedded tree on disk and a manifest entry
\* with user_modified = false and the embedded checksum.
C34_UnmodifiedAgentIsCurrent ==
    [][InitializeStep =>
          \A agent_id \in builtin_agent_ids(agents.assets) :
              NotModifiedByUser(agents, agent_id) =>
                  /\ agents'.disk[agent_id] = agents.assets[agent_id]
                  /\ agent_id \in DOMAIN agents'.manifest_file.agents
                  /\ ~agents'.manifest_file.agents[agent_id].user_modified
                  /\ agents'.manifest_file.agents[agent_id].checksum
                        = embedded_agent_checksum(agents.assets[agent_id])]_vars

----------------------------------------------------------------------------
(* Agent registry: the user_modified flag *)

\* C36: after a run of initialize the user_modified flag of every built-in
\* agent of the manifest is true exactly when the agent's directory exists
\* and its checksum is not the one the manifest records.
C36_FlagIffTreeDiffers ==
    [][InitializeStep =>
          \A agent_id \in DOMAIN agents'.manifest_file.agents :
              agents'.manifest_file.agents[agent_id].user_modified
                 <=> DiffersFromManifest(agents', agent_id)]_vars

----------------------------------------------------------------------------
(* Web search registry: selection by priority *)

PriorityListedRegistered(r) ==
    \E i \in 1..Len(r.provider_priority) :
        r.provider_priority[i] \in DOMAIN r.providers

ActiveRegistered(r) ==
    /\ r.active_provider # NoProvider
    /\ r.active_provider.id \in DOMAIN r.providers

\* C37: select_provider_by_priority returns None only when no provider is
\* registered; when a provider of the priority list or the active provider
\* is registered it returns the first provider of
\* providers_in_priority_order().
C37_SelectIsFirstInOrder ==
    [][SelectProviderByPriority =>
          /\ probe'.output = NoProvider => DOMAIN registry.providers = {}
          /\ PriorityListedRegistered(registry) \/ ActiveRegistered(registry) =>
                \A iteration \in Orders(DOMAIN registry.providers) :
                    LET ordered == providers_in_priority_order(registry, iteration)
                    IN  ordered # <<>> /\ probe'.output = ordered[1]]_vars

\* (the second half of C37 alone)
SelectIsFirstWhenListedOrActive ==
    [][SelectProviderByPriority =>
          (PriorityListedRegistered(registry) \/ ActiveRegistered(registry) =>
                \A iteration \in Orders(DOMAIN registry.providers) :
                    LET ordered == providers_in_priority_order(registry, iteration)
                    IN  ordered # <<>> /\ probe'.output = ordered[1])]_vars

----------------------------------------------------------------------------
(* Legacy upgrade: token usage and tool uses *)

\* the position of the most recent user message before position i of the
\* legacy messages, 0 when there is none
PrecedingUser(messages, i) ==
    LET users == {j \in 1..(i - 1) : messages[j].role = "User"}
    IN  IF users = {} THEN 0
        ELSE CHOOSE j \in users : \A k \in users : k <= j

\* the position in the upgraded thread of the legacy message at position i
\* (System messages are skipped)
UpgradedPosition(messages, i) ==
    Cardinality({j \in 1..i : messages[j].role # "System"})

\* the assistant messages a token usage is recorded for
WithUsage(thread) ==
    {i \in 1..Len(thread.messages) :
        /\ thread.messages[i].role = "Assistant"
        /\ i <= Len(thread.request_token_usage)}

\* the id the upgrade gave the user message that precedes position i
PrecedingUserId(thread, upgraded, i) ==
    upgraded.messages[UpgradedPosition(thread.messages,
                                       PrecedingUser(thread.messages, i))].id

\* every entry of request_token_usage is the usage of an assistant message,
\* under the id of the user message that precedes it
EntriesFromPrecededAssistants(thread, upgraded) ==
    \A key \in DOMAIN upgraded.request_token_usage :
        \E i \in WithUsage(thread) :
            /\ PrecedingUser(thread.messages, i) # 0
            /\ PrecedingUserId(thread, upgraded, i) = key
            /\ upgraded.request_token_usage[key] = thread.request_token_usage[i]

\* the content of an upgraded assistant message: its segments, then its
\* tool uses in the order given
ToolUsesAfterSegments(thread, upgraded) ==
    \A i \in 1..Len(thread.messages) :
        thread.messages[i].role = "Assistant" =>
            LET msg == thread.messages[i]
                content == upgraded.messages[UpgradedPosition(thread.messages, i)].content
                n == Len(msg.segments)
            IN  /\ Len(content) = n + Len(msg.tool_uses)
                /\ \A k \in 1..n : content[k].type = msg.segments[k].type
                /\ \A k \in 1..Len(msg.tool_uses) :
                      content[n + k] = ToolUse(msg.tool_uses[k])

\* the usage of the assistant message at position i is in request_token_usage
\* under the id of the user message that precedes it
StoredUnderPrecedingUser(thread, upgraded, i) ==
    LET key == PrecedingUserId(thread, upgraded, i)
    IN  /\ key \in DOMAIN upgraded.request_token_usage
        /\ upgraded.request_token_usage[key] = thread.request_token_usage[i]

\* position i is followed, before the next user message, by another assistant
\* message with a token usage
Superseded(thread, i) ==
    \E k \in WithUsage(thread) :
        k > i /\ PrecedingUser(thread.messages, k) = PrecedingUser(thread.messages, i)

\* C38 as stated: the token usage of each assistant message is stored under
\* the id of the most recent user message before it, an assistant message
\* with no user message before it contributes no entry, and the tool uses
\* follow the segments in the order given.
C38_UsageOfEachAssistant ==
    probe.op = "upgraded" =>
        /\ \A i \in WithUsage(probe.input) :
              PrecedingUser(probe.input.messages, i) # 0 =>
                 StoredUnderPrecedingUser(probe.input, probe.output, i)
        /\ EntriesFromPrecededAssistants(probe.input, probe.output)
        /\ ToolUsesAfterSegments(probe.input, probe.output)

\* C38, amended: the token usage of the last assistant message that follows
\* a user message before the next one is stored under that user message's
\* id; every entry is such a usage, so an assistant message with no user
\* message before it contributes none; the tool uses follow the segments in
\* the order given.
C38_UsageOfLastAssistant ==
    probe.op = "upgraded" =>
        /\ \A i \in WithUsage(probe.input) :
              PrecedingUser(probe.input.messages, i) # 0
                 /\ ~Superseded(probe.input, i) =>
                    StoredUnderPrecedingUser(probe.input, probe.output, i)
        /\ EntriesFromPrecededAssistants(probe.input, probe.output)
        /\ ToolUsesAfterSegments(probe.input, probe.output)

\* an upgraded thread with an assistant message before the first user
\* message and two assistant messages with different usages after it
C38_Witness ==
    /\ probe.op = "upgraded"
    /\ \E i, k \in WithUsage(probe.input) :
          /\ i < k
          /\ PrecedingUser(probe.input.messages, i) # 0
          /\ PrecedingUser(probe.input.messages, k) = PrecedingUser(probe.input.messages, i)
          /\ probe.input.request_token_usage[i] # probe.input.request_token_usage[k]
          /\ probe.output.request_token_usage[PrecedingUserId(probe.input, probe.output, k)]
                = probe.input.request_token_usage[k]
    /\ \E i \in WithUsage(probe.input) : PrecedingUser(probe.input.messages, i) = 0
    /\ \E i \in 1..Len(probe.output.messages) :
          /\ probe.output.messages[i].kind = "Agent"
          /\ Len(probe.output.messages[i].content) >= 3

----------------------------------------------------------------------------
(* truncate_text *)

\* the byte offset of the last space within the first max_length bytes of
\* the text, -1 when there is none
LastSpaceOffset(text, max_length) ==
    LET offsets == {i \in 0..(max_length - 1) : text[i + 1] = " "}
    IN  IF offsets = {} THEN 0 - 1
        ELSE CHOOSE i \in offsets : \A j \in offsets : j <= i

\* out is the text cut at `cut` bytes with the ellipsis appended
IsCutAt(out, text, cut) == out = SubSeq(text, 1, cut) \o Ellipsis

\* what the claim says of truncate_text; `strict` tells whether the space
\* must lie after max_length/2 or may lie at it
TruncatedAsStated(out, text, max_length, strict) ==
    IF Len(text) <= max_length THEN out = text
    ELSE LET offset == LastSpaceOffset(text, max_length)
             far == IF strict THEN offset > max_length \div 2
                    ELSE 2 * offset >= max_length
         IN  /\ Len(out) <= max_length + 3
             /\ SubSeq(out, Len(out) - 2, Len(out)) = Ellipsis
             /\ IsCutAt(out, text, IF offset >= 0 /\ far THEN offset ELSE max_length)

\* what the claim says of the tool's trimming
TrimmedAsStated(out, response, max_results, snippet_length, strict) ==
    /\ Len(out) <= max_results
    /\ Len(out) <= Len(response)
    /\ Len(out) = max_results \/ Len(out) = Len(response)
    /\ \A i \in 1..Len(out) :
          /\ out[i].url = response[i].url
          /\ IF Len(response[i].text) > snippet_length
             THEN TruncatedAsStated(out[i].text, response[i].text, snippet_length, strict)
             ELSE out[i].text = response[i].text

\* the inputs whose cut at max_length falls between two characters
CutsOnBoundary ==
    /\ probe.op = "truncated" =>
          Len(probe.text) <= probe.max_length
             \/ IsCharBoundary(probe.text, probe.max_length)
    /\ probe.op = "trimmed" =>
          \A i \in 1..Len(probe.response) :
              i <= probe.max_results /\ Len(probe.response[i].text) > probe.max_length =>
                 IsCharBoundary(probe.response[i].text, probe.max_length)

StatedOfProbe(strict) ==
    /\ probe.op = "truncated" =>
          TruncatedAsStated(probe.output, probe.text, probe.max_length, strict)
    /\ probe.op = "trimmed" =>
          TrimmedAsStated(probe.output.results, probe.response, probe.max_results,
                          probe.max_length, strict)

C40_TruncateNeverAborts ==
    /\ probe.op = "truncated" => probe.output # Panic
    /\ probe.op = "trimmed" => ~probe.output.panicked

====
